---- MODULE Spec2Model ----
(***************************************************************************)
(* Verification model of genpydoc's documentation-coverage and             *)
(* change-mapping engine.                                                  *)
(*                                                                         *)
(*   SpecDiff   : the Diff Parser (git_retriever/utils.py: parse_diff,     *)
(*                process_changes), one loop iteration per step.           *)
(*   SpecTree   : the Definition Tree Builder (extractor/visit.py), one    *)
(*                visited node per step.                                   *)
(*   SpecMap    : Documenter.document with the Change Mapper and the       *)
(*                Coverage Reducer (documenter.py, git_retriever.py).      *)
(*   SpecFilter : the Scope Filter (extractor/extract.py), one rule per    *)
(*                step.                                                    *)
(*   SpecSkip   : the skip rules of the Visitor on one node.               *)
(*   SpecGen    : the generation step (commenter/commenter.py), its tasks  *)
(*                interleaved on the event loop.                           *)
(*   SpecFiles  : the input file selection (extractor/extract.py), one     *)
(*                file per step.                                           *)
(*   SpecRewrite: the rewrite step (commenter/transformer.py), applied     *)
(*                twice, one node per step.                                *)
(***************************************************************************)
EXTENDS Integers, Sequences, FiniteSets, TLC

\* ------------------------------------------------------------------------
\* Bounds of the model
\* ------------------------------------------------------------------------
MaxDiffLines == 4

MaxDefs == 2

\* The longest file of SpecFilter, in definitions (longer ones: DeepShapes)
MaxFilterDefs == 2

\* The longest name of SpecSkip, in characters
MaxNameLen == 4

\* The longest tree of SpecRewrite, in definitions
MaxRewriteDefs == 2

\* ------------------------------------------------------------------------
\* Generic helpers (Python built-ins the code relies on)
\* ------------------------------------------------------------------------
\* Optional[int]: None is the empty tuple, a present value n is <<n>>.
None == << >>

Some(n) == << n >>

\* str.startswith
StartsWith(s, p) == Len(s) >= Len(p) /\ SubSeq(s, 1, Len(p)) = p

\* str.strip() == "" : every character is whitespace
IsBlank(s) == \A i \in 1..Len(s) : s[i] \in {" ", "\t"}

\* s[1:]
Tail1(s) == IF Len(s) = 0 THEN << >> ELSE SubSeq(s, 2, Len(s))

Range(f) == { f[x] : x \in DOMAIN f }

\* ------------------------------------------------------------------------
\* Diff Parser: git_retriever/utils.py
\* ------------------------------------------------------------------------
\* DiffChangeType
ADD == "+"

REMOVE == "-"

BLANK == " "

\* One line of diff_text.splitlines().  A line that HUNK_REGEX matches is
\* given by the two numbers the regex captures (groups 1 and 3); every other
\* line is given by its characters.
HunkLine(o, n) == [hunk |-> TRUE, old |-> o, new |-> n, s |-> << >>]

TextLine(s) == [hunk |-> FALSE, old |-> 0, new |-> 0, s |-> s]

\* HUNK_REGEX.match(line)
HUNK_REGEX(line) == line.hunk

\* The lines the model feeds to the parser: an empty line, context, added and
\* removed lines with blank and non-blank text, lines that begin with '---'
\* and '+++', the no-newline marker, and two hunk headers.
DiffLines ==
    { TextLine(<< >>),
      TextLine(<<" ", "x">>),
      TextLine(<<"+", "x">>),
      TextLine(<<"+", " ">>),
      TextLine(<<"-", "x">>),
      TextLine(<<"-", "-", "-">>),
      TextLine(<<"+", "+", "+">>),
      TextLine(<<"\\">>),
      HunkLine(10, 10),
      HunkLine(3, 7) }

\* DiffChange dataclass
DiffChange(o, n, k, t) ==
    [old_lineno |-> o, new_lineno |-> n, kind |-> k, text |-> t]

\* The local state of parse_diff between two iterations of its loop.
ParseState(o, n, c, e) ==
    [old_lineno |-> o, new_lineno |-> n, changes |-> c, exc |-> e]

ParseStart == ParseState(None, None, << >>, "")

\* The record parse_diff appends for a line with prefix ' ', '+', '-'
ContextRecord(o, n, text) == DiffChange(Some(o), Some(n), BLANK, text)

AddedRecordWithOld(o, n, text) == DiffChange(Some(o), Some(n), ADD, text)

AddedRecord(o, n, text) == DiffChange(None, Some(n), ADD, text)

RemovedRecord(o, n, text) == DiffChange(Some(o), None, REMOVE, text)

\* The test `line.startswith("---") or line.startswith("+++")`
never_file_header(line) == FALSE

is_file_header(line) ==
    \/ StartsWith(line.s, <<"-", "-", "-">>)
    \/ StartsWith(line.s, <<"+", "+", "+">>)

\* One iteration of the loop of parse_diff over `line`.
parse_diff_step(st, line) ==
    IF HUNK_REGEX(line)
    THEN ParseState(Some(line.old), Some(line.new), st.changes, "")
    ELSE IF is_file_header(line)
    THEN st
    ELSE IF st.old_lineno = None \/ st.new_lineno = None
    THEN st
    ELSE IF Len(line.s) = 0
    THEN ParseState(st.old_lineno, st.new_lineno, st.changes, "IndexError")
    ELSE LET prefix == line.s[1]
             text == Tail1(line.s)
             o == st.old_lineno[1]
             n == st.new_lineno[1]
         IN  IF prefix = " "
             THEN ParseState(Some(o + 1), Some(n + 1),
                     Append(st.changes, ContextRecord(o, n, text)), "")
             ELSE IF prefix = "+"
             THEN ParseState(Some(o), Some(n + 1),
                     Append(st.changes, AddedRecord(o, n, text)), "")
             ELSE IF prefix = "-"
             THEN ParseState(Some(o + 1), Some(n),
                     Append(st.changes, RemovedRecord(o, n, text)), "")
             ELSE st

\* parse_diff on a whole text: the loop folded over the lines, stopping at
\* the first exception.
RECURSIVE parse_diff_from(_, _, _)
parse_diff_from(text, i, st) ==
    IF i > Len(text) \/ st.exc # ""
    THEN st
    ELSE parse_diff_from(text, i + 1, parse_diff_step(st, text[i]))

parse_diff(text) == parse_diff_from(text, 1, ParseStart)

\* process_changes: the two `continue` tests on a record
is_skipped_kind_only(change) == change.kind = BLANK

is_skipped(change) == change.kind = BLANK \/ IsBlank(change.text)

\* process_changes: the loop over the records, one record per unfolding.
\* The result is [lines, exc]; a record with neither line number raises.
RECURSIVE process_changes_from(_, _, _)
process_changes_from(chs, i, lines) ==
    IF i > Len(chs)
    THEN [lines |-> lines, exc |-> ""]
    ELSE LET change == chs[i]
         IN  IF is_skipped(change)
             THEN process_changes_from(chs, i + 1, lines)
             ELSE IF change.new_lineno # None
             THEN process_changes_from(chs, i + 1,
                                       lines \cup {change.new_lineno[1]})
             ELSE IF change.old_lineno # None
             THEN process_changes_from(chs, i + 1,
                                       lines \cup {change.old_lineno[1]})
             ELSE [lines |-> lines, exc |-> "RuntimeError"]

process_changes(chs) == process_changes_from(chs, 1, {})

\* ------------------------------------------------------------------------
\* Source files: the input of the Definition Tree Builder
\* ------------------------------------------------------------------------
\* A file is drawn as a shape: its definitions in source order, each with its
\* node type, its nesting depth and the way its docstring is written:
\*   "none"  no docstring
\*   "own"   the triple quotes on lines of their own:   """ / Doc. / """
\*   "open"  the text begins on the opening line:      """Doc. / more / """
DocStyles == {"none", "own", "open"}

DefTypes == {"ClassDef", "FunctionDef", "AsyncFunctionDef"}

\* The name a definition of each type has unless one is given
DefName(t) ==
    CASE t = "ClassDef" -> "C"
      [] t = "FunctionDef" -> "f"
      [] t = "AsyncFunctionDef" -> "g"

DefNamed(t, nm, d, k) ==
    [type |-> t, name |-> nm, doc |-> d, depth |-> k,
     decorator_list |-> << >>]

\* A definition under the decorators dl
Decorated(def, dl) == [def EXCEPT !.decorator_list = dl]

\* The characters of the names the definitions of the model bear
NameChars(name) ==
    CASE name = "C" -> <<"C">>
      [] name = "D" -> <<"D">>
      [] name = "f" -> <<"f">>
      [] name = "g" -> <<"g">>
      [] name = "py" -> <<"p", "y">>
      [] name = "_p" -> <<"_", "p">>
      [] name = "__q" -> <<"_", "_", "q">>
      [] name = "__m__" -> <<"_", "_", "m", "_", "_">>
      [] name = "__init__" -> <<"_", "_", "i", "n", "i", "t", "_", "_">>

\* os.path.basename(filename) of the files of the model, as the pieces a
\* record's path is joined from: the stem and the extension
FileTokens(filename) ==
    CASE filename = "a.py" -> <<"a", ".py">>
      [] filename = "b.py" -> <<"b", ".py">>
      [] filename = "s.pyi" -> <<"s", ".pyi">>

Def(t, d, k) == DefNamed(t, DefName(t), d, k)

DefChoices(maxDepth) ==
    { Def(t, d, k) : t \in DefTypes, d \in DocStyles, k \in 1..maxDepth }

LastDepth(shape) == IF Len(shape) = 0 THEN 0 ELSE shape[Len(shape)].depth

\* All shapes of exactly n definitions: a definition is at most one level
\* deeper than the definition before it.
RECURSIVE ShapesOfLen(_)
ShapesOfLen(n) ==
    IF n = 0
    THEN { << >> }
    ELSE UNION { { Append(sh, c) :
                     c \in { e \in DefChoices(n) :
                               e.depth <= LastDepth(sh) + 1 } } :
                 sh \in ShapesOfLen(n - 1) }

Shapes == UNION { ShapesOfLen(n) : n \in 0..MaxDefs }

\* The source lines a definition contributes before its nested definitions:
\* its header, its docstring, one statement.
HeaderLine(def) ==
    CASE def.type = "ClassDef" -> "class " \o def.name \o ":"
      [] def.type = "FunctionDef" -> "def " \o def.name \o "():"
      [] def.type = "AsyncFunctionDef" -> "async def " \o def.name \o "():"

DocLines(d) ==
    CASE d = "none" -> << >>
      [] d = "own" -> << "\"\"\"", "Doc.", "\"\"\"" >>
      [] d = "open" -> << "\"\"\"Doc.", "more", "\"\"\"" >>

\* One line per decorator, above the header
DecoratorLines(def) == [i \in 1..Len(def.decorator_list) |-> "@decorator"]

OwnLines(def) ==
    DecoratorLines(def) \o <<HeaderLine(def)>> \o DocLines(def.doc)
        \o <<"pass">>

\* ast.get_docstring(node), cleaned, as its lines; << >> when there is none
get_docstring(d) ==
    CASE d = "none" -> << >>
      [] d = "own" -> << "Doc." >>
      [] d = "open" -> << "Doc.", "more" >>

\* The text of the file: line 1 is an import, then the definitions
RECURSIVE SourceFrom(_, _)
SourceFrom(shape, i) ==
    IF i > Len(shape) THEN << >>
    ELSE OwnLines(shape[i]) \o SourceFrom(shape, i + 1)

SourceOf(shape) == <<"import os">> \o SourceFrom(shape, 1)

\* The first line of definition i: its first decorator or its header
RECURSIVE FirstLineOf(_, _)
FirstLineOf(shape, i) ==
    IF i = 1 THEN 2
    ELSE FirstLineOf(shape, i - 1) + Len(OwnLines(shape[i - 1]))

\* node.lineno of definition i: the line of its header
LinenoOf(shape, i) == FirstLineOf(shape, i) + Len(shape[i].decorator_list)

\* The last definition nested in definition i (i itself when there is none)
RECURSIVE LastNested(_, _, _)
LastNested(shape, i, k) ==
    IF k + 1 <= Len(shape) /\ shape[k + 1].depth > shape[i].depth
    THEN LastNested(shape, i, k + 1)
    ELSE k

\* node.end_lineno of definition i: the last line of its last statement
EndLinenoOf(shape, i) ==
    LET k == LastNested(shape, i, i)
    IN  FirstLineOf(shape, k) + Len(OwnLines(shape[k])) - 1

\* ast.parse(source): the documentable nodes in pre-order.  The Module node
\* has no lineno and no end_lineno.
AstDef(shape, i) ==
    [type |-> shape[i].type, name |-> shape[i].name,
     depth |-> shape[i].depth,
     lineno |-> Some(LinenoOf(shape, i)),
     end_lineno |-> Some(EndLinenoOf(shape, i)),
     docstring |-> get_docstring(shape[i].doc),
     decorator_list |-> shape[i].decorator_list]

AstModule(filename) ==
    [type |-> "Module", name |-> filename, depth |-> 0,
     lineno |-> None, end_lineno |-> None, docstring |-> << >>,
     decorator_list |-> << >>]

AstOf(filename, shape) ==
    <<AstModule(filename)>> \o [i \in 1..Len(shape) |-> AstDef(shape, i)]

\* ------------------------------------------------------------------------
\* Definition Tree Builder: extractor/visit.py
\* ------------------------------------------------------------------------
\* Visitor._has_doc
has_doc(node) == node.docstring # << >>

\* Visitor._get_sanitized_docstring
get_sanitized_docstring(node) == node.docstring

\* ast.get_source_segment(source, node): None (<< >> with no_code) for a node
\* without end_lineno, else the lines lineno..end_lineno
get_source_segment(source, node) ==
    IF node.end_lineno = None \/ node.lineno = None
    THEN << >>
    ELSE SubSeq(source, node.lineno[1], node.end_lineno[1])

\* Visitor._remove_docstring_from_source: the lines whose stripped text is
\* the marker """ or a line of the docstring are dropped
remove_docstring_from_source(code, docstring) ==
    SelectSeq(code, LAMBDA line : line \notin ({"\"\"\""} \cup Range(docstring)))

\* Visitor._get_sanitized_code
get_sanitized_code(source, node) ==
    LET code == get_source_segment(source, node)
    IN  IF has_doc(node) /\ code # << >>
        THEN remove_docstring_from_source(code, get_sanitized_docstring(node))
        ELSE code

\* Visitor._is_nested_func
is_nested_func(parent, node_type) ==
    /\ parent # None
    /\ parent[1].node_type = "FunctionDef" /\ node_type = "FunctionDef"

\* Visitor._is_nested_cls
is_nested_cls(parent, node_type) ==
    /\ parent # None
    /\ parent[1].node_type \in {"ClassDef", "FunctionDef"}
    /\ node_type = "ClassDef"

\* str.endswith on character sequences
EndsWith(s, p) ==
    Len(s) >= Len(p) /\ SubSeq(s, Len(s) - Len(p) + 1, Len(s)) = p

\* Visitor._is_private, on node.name as its characters
is_private(name) ==
    IF EndsWith(name, <<"_", "_">>) THEN FALSE
    ELSE IF ~StartsWith(name, <<"_", "_">>) THEN FALSE
    ELSE TRUE

\* Visitor._is_semiprivate
is_semiprivate_no_trailing(name) ==
    IF EndsWith(name, <<"_">>) THEN FALSE
    ELSE IF StartsWith(name, <<"_", "_">>) THEN FALSE
    ELSE IF ~StartsWith(name, <<"_">>) THEN FALSE
    ELSE TRUE

is_semiprivate(name) ==
    IF EndsWith(name, <<"_", "_">>) THEN FALSE
    ELSE IF StartsWith(name, <<"_", "_">>) THEN FALSE
    ELSE IF ~StartsWith(name, <<"_">>) THEN FALSE
    ELSE TRUE

\* Visitor._is_ignored_common
is_ignored_common(config, node) ==
    IF config.ignore_private /\ is_private(node.name) THEN TRUE
    ELSE IF config.ignore_semiprivate /\ is_semiprivate(node.name) THEN TRUE
    ELSE FALSE

\* Visitor._is_class_ignored
is_class_ignored(config, node) == is_ignored_common(config, node)

\* A decorator expression: ast.Name has id; ast.Attribute has attr and
\* value, and its value has an id when it is a Name; ast.Call has none
NameDec(id) == [id |-> Some(id), attr |-> None, value_id |-> None]

AttrDec(value_id, attr) ==
    [id |-> None, attr |-> Some(attr), value_id |-> Some(value_id)]

CallDec == [id |-> None, attr |-> None, value_id |-> None]

\* Visitor._has_property_decorators
has_property_decorators(node) ==
    \E i \in 1..Len(node.decorator_list) :
        LET dec == node.decorator_list[i]
        IN  \/ dec.id = Some("property")
            \/ dec.attr = Some("setter")
            \/ dec.attr = Some("deleter")

\* Visitor._has_setters
has_setters(node) ==
    \E i \in 1..Len(node.decorator_list) :
        node.decorator_list[i].attr = Some("setter")

\* Visitor._has_overload
has_overload(node) ==
    \E i \in 1..Len(node.decorator_list) :
        LET dec == node.decorator_list[i]
        IN  \/ /\ dec.attr # None /\ dec.value_id # None
               /\ dec.value_id[1] # "" /\ dec.attr = Some("overload")
            \/ dec.id = Some("overload")

\* "__init__" as its characters
InitName == <<"_", "_", "i", "n", "i", "t", "_", "_">>

\* Visitor._is_func_ignored
is_func_ignored(config, node) ==
    LET is_init == node.name = InitName
        is_magic == /\ node.name # InitName
                    /\ StartsWith(node.name, <<"_", "_">>)
                    /\ EndsWith(node.name, <<"_", "_">>)
    IN  IF config.ignore_init_method /\ is_init THEN TRUE
        ELSE IF config.ignore_magic /\ is_magic THEN TRUE
        ELSE IF config.ignore_property_decorators
                /\ has_property_decorators(node) THEN TRUE
        ELSE IF config.ignore_property_setters /\ has_setters(node) THEN TRUE
        ELSE IF config.ignore_overloaded_functions /\ has_overload(node)
        THEN TRUE
        ELSE is_ignored_common(config, node)

\* Visitor.visit_ClassDef, visit_FunctionDef, visit_AsyncFunctionDef: the
\* test that returns before _visit_helper; visit_Module has none
never_ignored(config, node) == FALSE

is_ignored(config, node) ==
    LET named == [name |-> NameChars(node.name),
                  decorator_list |-> node.decorator_list]
    IN  CASE node.type = "Module" -> FALSE
          [] node.type = "ClassDef" -> is_class_ignored(config, named)
          [] OTHER -> is_func_ignored(config, named)

\* parent_path.endswith(".py") on a path joined from pieces: the last piece
\* is the extension .py, or the name py after the separator "."
path_endswith_py(path) ==
    /\ Len(path) > 0
    /\ \/ path[Len(path)] = ".py"
       \/ /\ Len(path) > 1
          /\ path[Len(path)] = "py"
          /\ path[Len(path) - 1] = "."

\* generic_visit: the last node of the subtree of node i
subtree_end(tree, i) ==
    CHOOSE j \in i..Len(tree) :
        /\ \A k \in (i + 1)..j : tree[k].depth > tree[i].depth
        /\ j = Len(tree) \/ tree[j + 1].depth <= tree[i].depth

\* c.a_path.endswith(".py"), on the repository paths of the model
PyFiles == {"a.py", "b.py"}

EndsWithPy(path) == path \in PyFiles

\* The state of a Visitor: the open-scope stack (indices into nodes, with
\* the syntax depth of each open node) and the records built so far
VisitorStart == [stack |-> << >>, nodes |-> << >>]

\* Returning from the nodes that are not ancestors of a node at `depth`:
\* one self.stack.pop() per finished _visit_helper call
never_pop(stack, depth) == stack

RECURSIVE pop_to(_, _)
pop_to(stack, depth) ==
    IF Len(stack) > 0 /\ stack[Len(stack)].depth >= depth
    THEN pop_to(SubSeq(stack, 1, Len(stack) - 1), depth)
    ELSE stack

\* Visitor._visit_helper up to generic_visit: the record of `node` is built,
\* pushed on the stack and appended to nodes
visit_helper(vs, filename, source, node) ==
    LET stack == pop_to(vs.stack, node.depth)
        parent == IF Len(stack) > 0
                  THEN Some(vs.nodes[stack[Len(stack)].id])
                  ELSE None
        node_name == IF node.type = "Module"
                     THEN FileTokens(filename) ELSE <<node.name>>
        path == IF parent = None THEN node_name
                ELSE parent[1].path
                       \o <<IF path_endswith_py(parent[1].path)
                            THEN ":" ELSE ".">>
                       \o node_name
        cov_node ==
            [id |-> Len(vs.nodes) + 1,
             name |-> node.name,
             path |-> path,
             covered |-> has_doc(node),
             level |-> Len(stack),
             node_type |-> node.type,
             lineno |-> node.lineno,
             is_nested_func |-> is_nested_func(parent, node.type),
             is_nested_cls |-> is_nested_cls(parent, node.type),
             parent |-> IF parent = None THEN 0 ELSE parent[1].id,
             file |-> filename,
             docstring |-> IF has_doc(node)
                           THEN get_sanitized_docstring(node) ELSE << >>,
             code |-> get_sanitized_code(source, node)]
    IN  [stack |-> Append(stack, [id |-> cov_node.id, depth |-> node.depth]),
         nodes |-> Append(vs.nodes, cov_node)]

\* visitor.visit(parsed_tree): every documentable node in pre-order, then
\* the pops of the calls still open
\* An ignored node returns before generic_visit: its subtree is passed over
RECURSIVE visit_from(_, _, _, _, _, _)
visit_from(vs, config, filename, source, tree, i) ==
    IF i > Len(tree)
    THEN [stack |-> pop_to(vs.stack, 0), nodes |-> vs.nodes]
    ELSE IF is_ignored(config, tree[i])
    THEN visit_from(vs, config, filename, source, tree,
                    subtree_end(tree, i) + 1)
    ELSE visit_from(visit_helper(vs, filename, source, tree[i]),
                    config, filename, source, tree, i + 1)

visit(config, filename, source, tree) ==
    visit_from(VisitorStart, config, filename, source, tree, 1)

\* len(node.code.splitlines()) of a stored code: the lines were joined with
\* "\n", and splitlines gives no line for an empty last line
code_line_count(code) ==
    IF Len(code) > 0 /\ code[Len(code)] = ""
    THEN Len(code) - 1
    ELSE Len(code)

\* ------------------------------------------------------------------------
\* Python dict: a function on the set of its keys
\* ------------------------------------------------------------------------
EmptyDict == [k \in {} |-> {}]

Put(d, key, v) ==
    [k \in DOMAIN d \cup {key} |-> IF k = key THEN v ELSE d[k]]

\* ------------------------------------------------------------------------
\* Scope Filter and coverage extraction: extractor/extract.py
\* ------------------------------------------------------------------------
\* Extract._filter_nodes
filter_nodes(config, nodes) ==
    IF config.ignore_module
    THEN SelectSeq(nodes, LAMBDA n : n.node_type # "Module")
    ELSE nodes

\* Extract._filter_inner_nested (CovNode compares by identity: its id)
filter_inner_nested(nodes) ==
    LET nested_cls == { n.id : n \in { m \in Range(nodes) : m.is_nested_cls } }
        inner_nested_nodes ==
            { n.id : n \in { m \in Range(nodes) : m.parent \in nested_cls } }
        filtered_nodes ==
            SelectSeq(nodes, LAMBDA n : n.id \notin inner_nested_nodes)
    IN  SelectSeq(filtered_nodes, LAMBDA n : n.id \notin nested_cls)

\* Extract._set_google_style: the loop over the filtered records; `covered`
\* is the covered attribute of every record of the file, by id (the parent
\* of a record is written through the same object whether or not the filter
\* kept it)
RECURSIVE set_google_style_from(_, _, _)
set_google_style_from(nodes, i, covered) ==
    IF i > Len(nodes)
    THEN covered
    ELSE LET node == nodes[i]
         IN  IF node.node_type = "FunctionDef" /\ node.name = "__init__"
             THEN IF ~covered[node.id] /\ covered[node.parent]
                  THEN set_google_style_from(nodes, i + 1,
                          [covered EXCEPT ![node.id] = TRUE])
                  ELSE IF covered[node.id] /\ ~covered[node.parent]
                  THEN set_google_style_from(nodes, i + 1,
                          [covered EXCEPT ![node.parent] = TRUE])
                  ELSE set_google_style_from(nodes, i + 1, covered)
             ELSE set_google_style_from(nodes, i + 1, covered)

set_google_style(all, nodes) ==
    set_google_style_from(nodes, 1, [i \in 1..Len(all) |-> all[i].covered])

\* The covered attribute of every record of a visitor, by id
covered_flags(all) == [i \in 1..Len(all) |-> all[i].covered]

\* _get_file_coverage, `if self.config.ignore_nested_functions:`
keep_all_funcs(config, nodes) ==
    IF config.ignore_nested_functions
    THEN SelectSeq(nodes, LAMBDA n : n.node_type = "FunctionDef")
    ELSE nodes

keep_nested_funcs(config, nodes) ==
    IF config.ignore_nested_functions
    THEN SelectSeq(nodes, LAMBDA n : n.is_nested_func)
    ELSE nodes

\* _get_file_coverage, `if self.config.ignore_nested_classes:`
drop_nested_classes(config, nodes) ==
    IF config.ignore_nested_classes
    THEN filter_inner_nested(nodes)
    ELSE nodes

\* _get_file_coverage, `if self.config.docstring_style == "google":`
propagate_style(config, nodes, covered) ==
    IF config.docstring_style = "google"
    THEN set_google_style_from(nodes, 1, covered)
    ELSE covered

\* The body of _get_file_coverage from `filtered_nodes = ...` on, applied to
\* a record list whose covered attributes are `covered`: the list it
\* returns (none: it returns None) and the covered attributes afterwards
filter_chain(config, nodes, covered) ==
    LET f1 == filter_nodes(config, nodes)
        f3 == drop_nested_classes(config, keep_nested_funcs(config, f1))
    IN  IF Len(f1) = 0
        THEN [none |-> TRUE, nodes |-> << >>, covered |-> covered]
        ELSE [none |-> FALSE, nodes |-> f3,
              covered |-> propagate_style(config, f3, covered)]

\* The records of a list with their covered attributes
with_flags(nodes, covered) ==
    [i \in 1..Len(nodes) |-> [nodes[i] EXCEPT !.covered = covered[nodes[i].id]]]

\* Extract._get_file_coverage; None is the empty list
get_file_coverage(config, file, shape) ==
    LET all == visit(config, file, SourceOf(shape), AstOf(file, shape)).nodes
        r == filter_chain(config, all, covered_flags(all))
    IN  IF r.none THEN << >> ELSE with_flags(r.nodes, r.covered)

\* Extract._filter_empty_nodes; None is the empty list
filter_empty_nodes_keep(nodes) == nodes

filter_empty_nodes(nodes) ==
    IF Len(nodes) = 0 THEN << >> ELSE SelectSeq(nodes, LAMBDA n : n.covered)

\* Extract._get_coverage over the files of `shapes` (a dict file -> shape):
\* a file enters a mapping only with a non-empty list
results_of(config, shapes) ==
    LET kept == { f \in DOMAIN shapes :
                    Len(get_file_coverage(config, f, shapes[f])) > 0 }
    IN  [f \in kept |-> get_file_coverage(config, f, shapes[f])]

covered_results_of(config, shapes) ==
    LET kept == { f \in DOMAIN shapes :
                    Len(filter_empty_nodes(
                          get_file_coverage(config, f, shapes[f]))) > 0 }
    IN  [f \in kept |->
           filter_empty_nodes(get_file_coverage(config, f, shapes[f]))]

\* ------------------------------------------------------------------------
\* Input file selection: extractor/extract.py.  Paths are sequences of
\* characters, so that endswith, basename and fnmatch act on their text.
\* ------------------------------------------------------------------------
\* Extract.COMMON_EXCLUDE
COMMON_EXCLUDE ==
    { <<".", "t", "o", "x">>,
      <<".", "v", "e", "n", "v">>,
      <<"v", "e", "n", "v">>,
      <<".", "g", "i", "t">>,
      <<".", "h", "g">> }

\* Extract.VALID_EXTENSIONS
VALID_EXTENSIONS == { <<".", "p", "y">>, <<".", "p", "y", "i">> }

\* self.extensions = set(".py"): the set of the characters of ".py"
extensions == { <<".">>, <<"p">>, <<"y">> }

\* os.path.join(path, i), for a path that does not end with a separator
join(path, i) == path \o <<"/">> \o i

\* Extract._add_common_exclude
add_common_exclude(paths) ==
    { join(paths[i], e) : i \in DOMAIN paths, e \in COMMON_EXCLUDE }

\* os.path.basename(file): the text after the last separator
basename(file) ==
    LET seps == { i \in 1..Len(file) : file[i] = "/" }
        last == IF seps = {} THEN 0
                ELSE CHOOSE i \in seps : \A j \in seps : j <= i
    IN  SubSeq(file, last + 1, Len(file))

\* fnmatch(file, exc + "*"), for an exc without wildcard characters
fnmatch_star(file, exc) == StartsWith(file, exc)

\* The test of get_filenames_from_path on a path that is a file
has_valid_extension(path) == \E ext \in VALID_EXTENSIONS : EndsWith(path, ext)

\* One iteration of the loop of Extract._filter_files: is `file` yielded
filter_file(excluded, file) ==
    LET has_valid_ext == \E ext \in extensions : EndsWith(file, ext)
    IN  IF ~has_valid_ext THEN FALSE
        ELSE IF basename(file) = InitName THEN FALSE
        ELSE IF \E exc \in excluded : fnmatch_star(file, exc) THEN FALSE
        ELSE TRUE

\* ------------------------------------------------------------------------
\* Rewrite step: commenter/transformer.py.  Texts are sequences of
\* characters; a tree is the pre-order list of its definitions, each with
\* its depth and the statements of its body that are not definitions.
\* ------------------------------------------------------------------------
\* str.removeprefix and str.removesuffix
removeprefix(s, p) ==
    IF StartsWith(s, p) THEN SubSeq(s, Len(p) + 1, Len(s)) ELSE s

removesuffix(s, p) ==
    IF Len(p) > 0 /\ EndsWith(s, p) THEN SubSeq(s, 1, Len(s) - Len(p)) ELSE s

TripleQuote == <<"\"", "\"", "\"">>

\* ast.Expr(value=ast.Constant(value=text)) with a str value
DocStmt(text) == [stmt |-> "Expr", const |-> "str", value |-> text]

\* An expression statement whose constant is not a str (`...`, `1`)
ConstStmt == [stmt |-> "Expr", const |-> "other", value |-> << >>]

\* A statement that is not an expression statement
PassStmt == [stmt |-> "Pass", const |-> "", value |-> << >>]

\* A ClassDef, FunctionDef or AsyncFunctionDef of the parsed tree
RewriteNode(t, nm, k, b) ==
    [node_type |-> t, name |-> nm, depth |-> k, body |-> b]

\* The test of _visit_helper: body[0] is a documentation string
never_docstring_stmt(body) == FALSE

is_docstring_stmt(body) ==
    /\ Len(body) > 0
    /\ body[1].stmt = "Expr"
    /\ body[1].const = "str"

\* Transformer._visit_helper
transformer_visit_helper(comments, node) ==
    IF node.name \notin DOMAIN comments
    THEN node
    ELSE LET new_docstring ==
                 removesuffix(removeprefix(comments[node.name], TripleQuote),
                              TripleQuote)
             new_doc_code == DocStmt(new_docstring)
         IN  IF is_docstring_stmt(node.body)
             THEN [node EXCEPT !.body = [@ EXCEPT ![1] = new_doc_code]]
             ELSE [node EXCEPT !.body = <<new_doc_code>> \o @]

\* generic_visit before _visit_helper: the nodes in post-order
post_order(tree) ==
    LET before(i, j) ==
            \/ subtree_end(tree, i) < subtree_end(tree, j)
            \/ subtree_end(tree, i) = subtree_end(tree, j) /\ i > j
        rank(i) == 1 + Cardinality({ j \in 1..Len(tree) : before(j, i) })
    IN  [p \in 1..Len(tree) |->
            CHOOSE i \in 1..Len(tree) : rank(i) = p]

\* ------------------------------------------------------------------------
\* Change Mapper: git_retriever/git_retriever.py
\* ------------------------------------------------------------------------
\* _reverse_mapping of __build_diffed_map
no_reverse_mapping(config, ct) == ct

reverse_mapping(config, ct) ==
    IF config.run_staged
    THEN (IF ct = "D" THEN "A" ELSE IF ct = "A" THEN "D" ELSE ct)
    ELSE ct

\* c.a_path.endswith(".py"), on the paths of the model
RepoPaths == {"a.py", "b.py", "c.txt"}

\* __build_diffed_map over the entries of the repository diff `d`
\* (a dict a_path -> change_type)
build_diffed_map(config, d) ==
    [k \in { c \in DOMAIN d : EndsWithPy(c) } |-> reverse_mapping(config, d[k])]

\* The test `node.lineno <= line < node.lineno + len(node.code.splitlines())`
spans_through(node, line) ==
    /\ node.lineno[1] <= line
    /\ line <= node.lineno[1] + code_line_count(node.code)

spans(node, line) ==
    /\ node.lineno[1] <= line
    /\ line < node.lineno[1] + code_line_count(node.code)

\* The inner loop of _match_lines_to_ast: traversed_nodes for one line
traversed_nodes(nodes, k, line) ==
    IF k \in DOMAIN nodes
    THEN { node \in Range(nodes[k]) : node.level # 0 /\ spans(node, line) }
    ELSE {}

\* GitRetriever._match_lines_to_ast: the loop over the lines
RECURSIVE match_lines_from(_, _, _, _)
match_lines_from(nodes, k, lines, definitions) ==
    IF lines = {}
    THEN definitions
    ELSE LET line == CHOOSE l \in lines : TRUE
             found == traversed_nodes(nodes, k, line)
         IN  match_lines_from(nodes, k, lines \ {line},
                              IF found # {} THEN definitions \cup found
                              ELSE definitions)

match_lines_to_ast(nodes, k, lines) == match_lines_from(nodes, k, lines, {})

\* The test `len(diff) > 1` of _extract_lines
more_than_two_entries(diff) == diff.entries > 2

too_many_entries(diff) == diff.entries > 1

\* The test of the Added fast path in _extract_lines
never_fast_path(diffed_map, nodes, k) == FALSE

is_fast_path(diffed_map, nodes, k) ==
    diffed_map[k] = "A" /\ k \in DOMAIN nodes

\* One entry of the filtering loop of _analyze_covered_nodes
covered_only(config, nodes) ==
    IF config.include_only_covered
    THEN { node \in nodes : node.covered }
    ELSE nodes

\* GitRetriever._analyze_covered_nodes
analyze_keep_empty(config, diffed_nodes) ==
    [k \in DOMAIN diffed_nodes |-> covered_only(config, diffed_nodes[k])]

analyze_covered_nodes(config, diffed_nodes) ==
    [k \in { f \in DOMAIN diffed_nodes :
               covered_only(config, diffed_nodes[f]) # {} } |->
        covered_only(config, diffed_nodes[k])]

\* ------------------------------------------------------------------------
\* Generation step: commenter/commenter.py
\* ------------------------------------------------------------------------
\* Commenter.comment: the records a prompt is built for
not_ignored(nodes) ==
    SelectSeq(nodes, LAMBDA n :
        n.node_type \in {"ClassDef", "FunctionDef", "AsyncFunctionDef"})

\* Commenter.build_prompt: the prompt is the text built from the record;
\* it is modelled by its kind and the record it quotes
build_prompt(node) ==
    IF node.node_type = "ClassDef"
    THEN [kind |-> "class", node |-> node.id]
    ELSE IF node.node_type \in {"FunctionDef", "AsyncFunctionDef"}
    THEN [kind |-> "function", node |-> node.id]
    ELSE [kind |-> "", node |-> node.id]

\* Commenter.comment: {node.name: build_prompt(node) for node in
\* not_ignored}: a later record replaces an earlier one of the same name
prompts_of(nodes) ==
    LET kept == not_ignored(nodes)
        last(nm) == CHOOSE i \in 1..Len(kept) :
                       /\ kept[i].name = nm
                       /\ \A j \in 1..Len(kept) : kept[j].name = nm => j <= i
    IN  [nm \in { kept[i].name : i \in 1..Len(kept) } |->
            build_prompt(kept[last(nm)])]

\* The sentinel a response carries when the docstring needs no change
NO_CHANGE == "-1"

\* Commenter.document: {k: v for k, v in docs.items() if v != "-1"}
keep_every_doc(docs) == docs

exclude_sentinel(docs) ==
    [k \in { n \in DOMAIN docs : docs[n] # NO_CHANGE } |-> docs[k]]

\* process_prompts: where the loop over as_completed goes after `await fut`
\* ended with `outcome`: an Exception is caught and written out
after_await_uncaught(outcome) ==
    IF outcome = "failed" THEN "raised" ELSE "await"

after_await(outcome) == "await"

\* ------------------------------------------------------------------------
\* Orchestration: documenter.py
\* ------------------------------------------------------------------------
\* The test `if nodes:` of Documenter.document: a dict is true iff it has a
\* key
always_has_nodes(d) == TRUE

has_nodes(d) == DOMAIN d # {}

\* ------------------------------------------------------------------------
\* State
\* ------------------------------------------------------------------------
VARIABLES
    dpc,          \* position in process_git_diff
    diff_none,    \* TRUE iff diff_text is None
    consumed,     \* the lines of diff_text.splitlines() read so far
    old_lineno,   \* parse_diff local
    new_lineno,   \* parse_diff local
    changes,      \* parse_diff local: the records emitted so far
    origin,       \* origin[i]: index in `consumed` of the line of changes[i]
    lines,        \* result of process_changes
    exc,          \* the exception that ended the call, "" if none
    vpc,          \* position in visitor.visit: "visit", "done"
    vconfig,      \* Visitor.config
    filename,     \* Visitor.filename
    source,       \* Visitor.source, as its lines
    tree,         \* the parsed tree: its documentable nodes in pre-order
    vpos,         \* index in `tree` of the next node to visit
    stack,        \* Visitor.stack
    visitor_nodes, \* Visitor.nodes
    mpc,          \* position in Documenter.document
    config,       \* Config
    shapes,       \* the scanned files on disk: file -> shape
    covered_nodes, \* GitRetriever.covered_nodes: file -> list of records
    nodes,        \* GitRetriever.nodes: file -> list of records
    repo_diff,    \* what the repository reports: a_path -> change_type
    diffed_map,   \* GitRetriever._diffed_map
    keys,         \* _extract_lines: the keys of _diffed_map still to visit
    lines_for_evaluation, \* _extract_lines local: file -> set of records
    seen,         \* per visited key: the scoped diff the repository gave
    doc_nodes,    \* Documenter.document local `nodes`: file -> set of records
    run_exc,      \* the exception that ended the run, "" if none
    fpc,          \* position in _get_file_coverage after visitor.visit
    fconfig,      \* Extract.config
    fall,         \* visitor.nodes
    flist,        \* _get_file_coverage local filtered_nodes
    fcovered,     \* the covered attribute of every record of fall, by id
    ffirst,       \* what the first application of the filter returned
    spc,          \* position in Visitor.visit_<type> of one node
    sconfig,      \* Visitor.config
    snode,        \* the syntax node: type, name (its characters), decorators
    svisited,     \* TRUE iff _visit_helper ran on the node
    cpc,          \* position in Commenter.document
    cnodes,       \* Commenter.document argument: file -> list of records
    cfiles,       \* the files the loop of Commenter.document has still to do
    cfile,        \* the file of the current iteration
    prompts,      \* Commenter.comment local: name -> prompt
    tasks,        \* process_prompts local: per prompt name, the task's state
    responses,    \* process_prompts local: name -> output text
    finished,     \* the names of the finished tasks, in completion order
    awaited,      \* how many futures of as_completed were awaited
    logged,       \* the failures written by tqdm.write
    requests,     \* the names of the requests issued for the current file
    processed     \* the calls of Parser.process, in order: <<file, docs>>

diffVars == <<dpc, diff_none, consumed, old_lineno, new_lineno, changes,
              origin, lines, exc>>

treeVars == <<vpc, vconfig, filename, source, tree, vpos, stack,
              visitor_nodes>>

mapVars == <<mpc, config, shapes, covered_nodes, nodes, repo_diff,
             diffed_map, keys, lines_for_evaluation, seen, doc_nodes,
             run_exc>>

filterVars == <<fpc, fconfig, fall, flist, fcovered, ffirst>>

skipVars == <<spc, sconfig, snode, svisited>>

genVars == <<cpc, cnodes, cfiles, cfile, prompts, tasks, responses,
             finished, awaited, logged, requests, processed>>

\* Input file selection
VARIABLES
    wpc,            \* position in Extract.get_filenames_from_path
    paths,          \* Extract.paths
    tree_files,     \* the files on disk
    excluded,       \* Extract.excluded
    full_paths,     \* the files os.walk has still to hand to _filter_files
    filenames       \* the list being built

fileVars == <<wpc, paths, tree_files, excluded, full_paths, filenames>>

\* Rewrite step
VARIABLES
    rpc,            \* position in the rewrite of one file
    comments,       \* Transformer.comments
    rtree0,         \* the tree as parsed
    rtree,          \* the tree being rewritten
    rtree1,         \* the tree after the first Transformer
    rorder,         \* the nodes the running Transformer has still to leave
    rpass           \* which Transformer is running

rewriteVars == <<rpc, comments, rtree0, rtree, rtree1, rorder, rpass>>

vars == <<diffVars, treeVars, mapVars, filterVars, skipVars, genVars,
         fileVars,
         rewriteVars>>

DefaultConfig ==
    [include_only_covered |-> TRUE, run_on_diff |-> FALSE,
     run_staged |-> FALSE, ignore_module |-> TRUE,
     ignore_nested_functions |-> FALSE, ignore_nested_classes |-> FALSE,
     docstring_style |-> "sphinx",
     ignore_magic |-> FALSE, ignore_private |-> FALSE,
     ignore_semiprivate |-> FALSE, ignore_init_method |-> TRUE,
     ignore_property_setters |-> FALSE,
     ignore_property_decorators |-> FALSE,
     ignore_overloaded_functions |-> FALSE]

\* The defaults with ignore_init_method off: no skip rule of the Visitor
\* is on
NoSkipConfig == [DefaultConfig EXCEPT !.ignore_init_method = FALSE]

\* The variables of a component that does not run
DiffIdle ==
    /\ dpc = "idle"
    /\ diff_none = FALSE
    /\ consumed = << >>
    /\ old_lineno = None
    /\ new_lineno = None
    /\ changes = << >>
    /\ origin = << >>
    /\ lines = {}
    /\ exc = ""

TreeIdle ==
    /\ vpc = "idle"
    /\ vconfig = DefaultConfig
    /\ filename = ""
    /\ source = << >>
    /\ tree = << >>
    /\ vpos = 0
    /\ stack = << >>
    /\ visitor_nodes = << >>

MapIdle ==
    /\ mpc = "idle"
    /\ config = DefaultConfig
    /\ shapes = EmptyDict
    /\ covered_nodes = EmptyDict
    /\ nodes = EmptyDict
    /\ repo_diff = EmptyDict
    /\ diffed_map = EmptyDict
    /\ keys = << >>
    /\ lines_for_evaluation = EmptyDict
    /\ seen = EmptyDict
    /\ doc_nodes = EmptyDict
    /\ run_exc = ""

FilterIdle ==
    /\ fpc = "idle"
    /\ fconfig = DefaultConfig
    /\ fall = << >>
    /\ flist = << >>
    /\ fcovered = << >>
    /\ ffirst = << >>

SkipIdle ==
    /\ spc = "idle"
    /\ sconfig = DefaultConfig
    /\ snode = << >>
    /\ svisited = FALSE

GenIdle ==
    /\ cpc = "idle"
    /\ cnodes = EmptyDict
    /\ cfiles = << >>
    /\ cfile = ""
    /\ prompts = EmptyDict
    /\ tasks = EmptyDict
    /\ responses = EmptyDict
    /\ finished = << >>
    /\ awaited = 0
    /\ logged = << >>
    /\ requests = << >>
    /\ processed = << >>

FilesIdle ==
    /\ wpc = "idle"
    /\ paths = << >>
    /\ tree_files = {}
    /\ excluded = {}
    /\ full_paths = << >>
    /\ filenames = << >>

RewriteIdle ==
    /\ rpc = "idle"
    /\ comments = EmptyDict
    /\ rtree0 = << >>
    /\ rtree = << >>
    /\ rtree1 = << >>
    /\ rorder = << >>
    /\ rpass = 0

\* ------------------------------------------------------------------------
\* SpecDiff: process_git_diff(diff) = process_changes(parse_diff(diff.diff))
\* ------------------------------------------------------------------------
InitDiff ==
    /\ dpc = "call"
    /\ diff_none = FALSE
    /\ consumed = << >>
    /\ old_lineno = None
    /\ new_lineno = None
    /\ changes = << >>
    /\ origin = << >>
    /\ lines = {}
    /\ exc = ""
    /\ TreeIdle
    /\ MapIdle
    /\ FilterIdle
    /\ SkipIdle
    /\ GenIdle
    /\ FilesIdle
    /\ RewriteIdle

\* parse_diff(None): diff_text.splitlines() on None
ParseNone ==
    /\ dpc = "call"
    /\ dpc' = "raised"
    /\ diff_none' = TRUE
    /\ exc' = "AttributeError"
    /\ UNCHANGED <<consumed, old_lineno, new_lineno, changes, origin, lines>>
    /\ UNCHANGED <<treeVars, mapVars, filterVars, skipVars, genVars, fileVars, rewriteVars>>

\* parse_diff(text): the locals are initialised and the loop is entered
ParseText ==
    /\ dpc = "call"
    /\ dpc' = "loop"
    /\ UNCHANGED <<diff_none, consumed, old_lineno, new_lineno, changes,
                   origin, lines, exc>>
    /\ UNCHANGED <<treeVars, mapVars, filterVars, skipVars, genVars, fileVars, rewriteVars>>

\* One iteration of the loop, on the next line of the text
ParseLine ==
    /\ dpc = "loop"
    /\ Len(consumed) < MaxDiffLines
    /\ \E line \in DiffLines :
         LET st == parse_diff_step(
                     ParseState(old_lineno, new_lineno, changes, ""), line)
         IN  /\ consumed' = Append(consumed, line)
             /\ old_lineno' = st.old_lineno
             /\ new_lineno' = st.new_lineno
             /\ changes' = st.changes
             /\ origin' = IF Len(st.changes) > Len(changes)
                          THEN Append(origin, Len(consumed) + 1)
                          ELSE origin
             /\ exc' = st.exc
             /\ dpc' = IF st.exc = "" THEN "loop" ELSE "raised"
    /\ UNCHANGED <<diff_none, lines>>
    /\ UNCHANGED <<treeVars, mapVars, filterVars, skipVars, genVars, fileVars, rewriteVars>>

\* The text is exhausted: parse_diff returns its records
ParseReturn ==
    /\ dpc = "loop"
    /\ dpc' = "parsed"
    /\ UNCHANGED <<diff_none, consumed, old_lineno, new_lineno, changes,
                   origin, lines, exc>>
    /\ UNCHANGED <<treeVars, mapVars, filterVars, skipVars, genVars, fileVars, rewriteVars>>

\* process_changes on the returned records
ProcessChanges ==
    /\ dpc = "parsed"
    /\ LET r == process_changes(changes)
       IN  /\ lines' = r.lines
           /\ exc' = r.exc
           /\ dpc' = IF r.exc = "" THEN "reduced" ELSE "raised"
    /\ UNCHANGED <<diff_none, consumed, old_lineno, new_lineno, changes,
                   origin>>
    /\ UNCHANGED <<treeVars, mapVars, filterVars, skipVars, genVars, fileVars, rewriteVars>>

NextDiff ==
    \/ ParseNone
    \/ ParseText
    \/ ParseLine
    \/ ParseReturn
    \/ ProcessChanges

SpecDiff == InitDiff /\ [][NextDiff]_vars

\* ------------------------------------------------------------------------
\* SpecTree: Visitor(filename, config, source).visit(ast.parse(source))
\* ------------------------------------------------------------------------
\* The longer files, read under every configuration: definitions with
\* private, semiprivate, magic and constructor names and with decorators,
\* each with definitions nested in it, definitions named py, and
\* definitions three levels deep
SkipShapes ==
    { << Def("ClassDef", "own", 1),
         DefNamed("FunctionDef", "__init__", "none", 2),
         Def("FunctionDef", "none", 3) >>,
      << DefNamed("ClassDef", "_p", "none", 1),
         Def("FunctionDef", "own", 2),
         Def("ClassDef", "none", 1) >>,
      << DefNamed("FunctionDef", "__q", "none", 1),
         Def("ClassDef", "none", 2),
         Def("FunctionDef", "none", 3),
         Def("AsyncFunctionDef", "own", 1) >>,
      << Def("ClassDef", "none", 1),
         DefNamed("AsyncFunctionDef", "__m__", "open", 2),
         Def("FunctionDef", "none", 3),
         Def("FunctionDef", "none", 2) >>,
      << Def("ClassDef", "none", 1),
         Decorated(Def("FunctionDef", "none", 2), <<NameDec("property")>>),
         Def("AsyncFunctionDef", "none", 3),
         Decorated(Def("FunctionDef", "none", 2),
                   <<AttrDec("f", "setter")>>) >>,
      << Decorated(Def("FunctionDef", "none", 1), <<NameDec("overload")>>),
         Def("ClassDef", "none", 2),
         Def("FunctionDef", "own", 1) >>,
      << Def("ClassDef", "none", 1),
         DefNamed("ClassDef", "py", "none", 2),
         Def("FunctionDef", "none", 3) >>,
      << DefNamed("FunctionDef", "py", "own", 1),
         Def("FunctionDef", "none", 2) >>,
      << Def("AsyncFunctionDef", "none", 1),
         Def("ClassDef", "own", 2),
         Def("AsyncFunctionDef", "open", 3),
         Def("FunctionDef", "open", 1) >> }

\* The configurations of the Visitor: no skip rule, the defaults, each rule
\* alone, all rules
TreeConfigs ==
    { NoSkipConfig, DefaultConfig,
      [NoSkipConfig EXCEPT !.ignore_private = TRUE],
      [NoSkipConfig EXCEPT !.ignore_semiprivate = TRUE],
      [NoSkipConfig EXCEPT !.ignore_magic = TRUE],
      [NoSkipConfig EXCEPT !.ignore_property_decorators = TRUE],
      [NoSkipConfig EXCEPT !.ignore_property_setters = TRUE],
      [NoSkipConfig EXCEPT !.ignore_overloaded_functions = TRUE],
      [DefaultConfig EXCEPT
         !.ignore_private = TRUE, !.ignore_semiprivate = TRUE,
         !.ignore_magic = TRUE, !.ignore_property_decorators = TRUE,
         !.ignore_property_setters = TRUE,
         !.ignore_overloaded_functions = TRUE] }

\* Every shape of the bound is read from a.py under no skip rule; the files
\* of SkipShapes are read, as a.py and as s.pyi, under every configuration
InitTree ==
    /\ vpc = "visit"
    /\ \/ \E shape \in Shapes :
             /\ vconfig = NoSkipConfig
             /\ filename = "a.py"
             /\ source = SourceOf(shape)
             /\ tree = AstOf("a.py", shape)
       \/ \E shape \in SkipShapes, file \in {"a.py", "s.pyi"} :
             /\ vconfig \in TreeConfigs
             /\ filename = file
             /\ source = SourceOf(shape)
             /\ tree = AstOf(file, shape)
    /\ vpos = 1
    /\ stack = << >>
    /\ visitor_nodes = << >>
    /\ DiffIdle
    /\ MapIdle
    /\ FilterIdle
    /\ SkipIdle
    /\ GenIdle
    /\ FilesIdle
    /\ RewriteIdle

\* The traversal reaches the next documentable node: the calls of the nodes
\* it is not nested in have returned, and _visit_helper runs on it
VisitNode ==
    /\ vpc = "visit"
    /\ vpos <= Len(tree)
    /\ ~is_ignored(vconfig, tree[vpos])
    /\ LET vs == visit_helper([stack |-> stack, nodes |-> visitor_nodes],
                              filename, source, tree[vpos])
       IN  /\ stack' = vs.stack
           /\ visitor_nodes' = vs.nodes
    /\ vpos' = vpos + 1
    /\ UNCHANGED <<vpc, vconfig, filename, source, tree>>
    /\ UNCHANGED <<diffVars, mapVars, filterVars, skipVars, genVars, fileVars, rewriteVars>>

\* The traversal reaches a node a skip rule ignores: visit_ClassDef,
\* visit_FunctionDef or visit_AsyncFunctionDef returns before _visit_helper,
\* and the traversal goes on after the node's subtree
SkipNode ==
    /\ vpc = "visit"
    /\ vpos <= Len(tree)
    /\ is_ignored(vconfig, tree[vpos])
    /\ vpos' = subtree_end(tree, vpos) + 1
    /\ UNCHANGED <<vpc, vconfig, filename, source, tree, stack,
                   visitor_nodes>>
    /\ UNCHANGED <<diffVars, mapVars, filterVars, skipVars, genVars,
                   fileVars, rewriteVars>>

\* No node is left: the calls still open return
VisitEnd ==
    /\ vpc = "visit"
    /\ vpos > Len(tree)
    /\ stack' = pop_to(stack, 0)
    /\ vpc' = "done"
    /\ UNCHANGED <<vconfig, filename, source, tree, vpos, visitor_nodes>>
    /\ UNCHANGED <<diffVars, mapVars, filterVars, skipVars, genVars, fileVars, rewriteVars>>

NextTree ==
    \/ VisitNode
    \/ SkipNode
    \/ VisitEnd

SpecTree == InitTree /\ [][NextTree]_vars

\* ------------------------------------------------------------------------
\* SpecMap: Documenter(config).document(paths)
\* ------------------------------------------------------------------------
\* The files a scanned path holds.  a.py is one of:
\*   no definition at all;
\*   a documented class with an undocumented method;
\*   an undocumented class whose __init__ is documented;
\*   a function with a nested function, then a documented async function.
\* b.py is absent or holds one undocumented function.
Catalogue ==
    { << >>,
      << Def("ClassDef", "own", 1), Def("FunctionDef", "none", 2) >>,
      << Def("ClassDef", "none", 1),
         DefNamed("FunctionDef", "__init__", "own", 2) >>,
      << Def("FunctionDef", "none", 1), Def("FunctionDef", "none", 2),
         Def("AsyncFunctionDef", "open", 1) >> }

CatalogueB == { << Def("FunctionDef", "none", 1) >> }

Disks ==
    { [f \in {"a.py"} |-> sa] : sa \in Catalogue }
    \cup { [f \in {"a.py", "b.py"} |-> IF f = "a.py" THEN sa ELSE sb] :
             sa \in Catalogue, sb \in CatalogueB }

\* The configurations: the three switches of the pipeline, with one of the
\* scope-filter settings
FilterProfiles ==
    { [ignore_module |-> TRUE, ignore_nested_functions |-> FALSE,
       ignore_nested_classes |-> FALSE, docstring_style |-> "sphinx"],
      [ignore_module |-> FALSE, ignore_nested_functions |-> FALSE,
       ignore_nested_classes |-> TRUE, docstring_style |-> "google"],
      [ignore_module |-> TRUE, ignore_nested_functions |-> TRUE,
       ignore_nested_classes |-> FALSE, docstring_style |-> "sphinx"] }

Configs ==
    { [NoSkipConfig EXCEPT
         !.include_only_covered = c, !.run_on_diff = d, !.run_staged = g,
         !.ignore_module = fp.ignore_module,
         !.ignore_nested_functions = fp.ignore_nested_functions,
         !.ignore_nested_classes = fp.ignore_nested_classes,
         !.docstring_style = fp.docstring_style] :
        c \in BOOLEAN, d \in BOOLEAN, g \in BOOLEAN, fp \in FilterProfiles }

\* What the repository reports between the baseline and the index or
\* branch: every path is unchanged ("-") or carries a change type
ChangeTypes == {"A", "D", "M", "R", "T"}

RepoDiffs ==
    { [k \in { q \in RepoPaths : st[q] # "-" } |-> st[k]] :
        st \in { t \in [RepoPaths -> ChangeTypes \cup {"-"}] :
                   /\ t["b.py"] \in {"-", "A", "D", "M"}
                   /\ t["c.txt"] \in {"-", "M"} } }

\* The scoped diff of one path: the number of entries and, for one entry,
\* its patch (diff.diff), which may be None
Patch(text) == [none |-> FALSE, text |-> text]

NoPatch == [none |-> TRUE, text |-> << >>]

Patches ==
    { NoPatch,
      Patch(<< HunkLine(1, 1), TextLine(<<"+", "x">>) >>),
      Patch(<< HunkLine(3, 3), TextLine(<<"-", "x">>) >>),
      Patch(<< HunkLine(1, 1), TextLine(<<"+", "x">>),
               TextLine(<<" ", "x">>), TextLine(<<" ", "x">>),
               TextLine(<<"+", "x">>), TextLine(<<"+", " ">>) >>),
      Patch(<< HunkLine(2, 3), TextLine(<<"-", "x">>),
               TextLine(<<"+", "x">>), TextLine(<<" ", "x">>),
               TextLine(<<" ", "x">>), TextLine(<<" ", "x">>),
               TextLine(<<"+", "x">>) >>),
      Patch(<< HunkLine(5, 5), TextLine(<< >>), TextLine(<<"+", "x">>) >>) }

DiffAnswers ==
    { [entries |-> 0, patch |-> NoPatch], [entries |-> 2, patch |-> NoPatch] }
    \cup { [entries |-> 1, patch |-> p] : p \in Patches }

\* process_git_diff(diff) for a single entry
process_git_diff(patch) ==
    IF patch.none
    THEN [lines |-> {}, exc |-> "AttributeError"]
    ELSE LET st == parse_diff(patch.text)
         IN  IF st.exc # ""
             THEN [lines |-> {}, exc |-> st.exc]
             ELSE process_changes(st.changes)

\* list(d.keys()) in the order of the model
KeyOrder == << "a.py", "b.py", "c.txt" >>

KeysOf(d) == SelectSeq(KeyOrder, LAMBDA k : k \in DOMAIN d)

\* The elements of the lists of a mapping
AsSets(d) == [k \in DOMAIN d |-> Range(d[k])]

InitMap ==
    /\ mpc = "start"
    /\ config \in Configs
    /\ shapes = EmptyDict
    /\ covered_nodes = EmptyDict
    /\ nodes = EmptyDict
    /\ repo_diff = EmptyDict
    /\ diffed_map = EmptyDict
    /\ keys = << >>
    /\ lines_for_evaluation = EmptyDict
    /\ seen = EmptyDict
    /\ doc_nodes = EmptyDict
    /\ run_exc = ""
    /\ DiffIdle
    /\ TreeIdle
    /\ FilterIdle
    /\ SkipIdle
    /\ GenIdle
    /\ FilesIdle
    /\ RewriteIdle

\* Documenter.document: extract.get_coverage() and the choice of `nodes`
GetCoverage ==
    /\ mpc = "start"
    /\ \E disk \in Disks :
         LET all_nodes == results_of(config, disk)
             covered == covered_results_of(config, disk)
             chosen == IF config.include_only_covered
                       THEN covered ELSE all_nodes
         IN  /\ shapes' = disk
             /\ covered_nodes' = covered
             /\ nodes' = chosen
             /\ doc_nodes' = AsSets(chosen)
    /\ mpc' = IF config.run_on_diff THEN "git" ELSE "handoff"
    /\ UNCHANGED <<config, repo_diff, diffed_map, keys,
                   lines_for_evaluation, seen, run_exc>>
    /\ UNCHANGED <<diffVars, treeVars, filterVars, skipVars, genVars, fileVars, rewriteVars>>

\* GitRetriever.__init__: __add_all, __build_diffed_map, __stop_early
GitInit ==
    /\ mpc = "git"
    /\ \E d \in RepoDiffs :
         LET dm == build_diffed_map(config, d)
         IN  /\ repo_diff' = d
             /\ diffed_map' = dm
             /\ IF DOMAIN dm = {}
                   \/ \A k \in DOMAIN dm : k \notin DOMAIN covered_nodes
                THEN mpc' = "exited" /\ keys' = << >>
                ELSE mpc' = "extract_lines" /\ keys' = KeysOf(dm)
    /\ UNCHANGED <<config, shapes, covered_nodes, nodes,
                   lines_for_evaluation, seen, doc_nodes, run_exc>>
    /\ UNCHANGED <<diffVars, treeVars, filterVars, skipVars, genVars, fileVars, rewriteVars>>

\* One iteration of the loop of _extract_lines, on the next key
ExtractLinesStep ==
    /\ mpc = "extract_lines"
    /\ Len(keys) > 0
    /\ LET k == Head(keys)
       IN  \E diff \in DiffAnswers :
             /\ keys' = Tail(keys)
             /\ IF too_many_entries(diff)
                THEN /\ run_exc' = "ValueError"
                     /\ mpc' = "raised"
                     /\ seen' = Put(seen, k, [diff |-> diff, via |-> "raise",
                                              lines |-> {}])
                     /\ UNCHANGED lines_for_evaluation
                ELSE IF is_fast_path(diffed_map, nodes, k)
                THEN /\ lines_for_evaluation' =
                          Put(lines_for_evaluation, k, Range(nodes[k]))
                     /\ seen' = Put(seen, k, [diff |-> diff, via |-> "fast",
                                              lines |-> {}])
                     /\ UNCHANGED <<run_exc, mpc>>
                ELSE IF diff.entries = 0
                THEN /\ run_exc' = "AttributeError"
                     /\ mpc' = "raised"
                     /\ seen' = Put(seen, k, [diff |-> diff, via |-> "raise",
                                              lines |-> {}])
                     /\ UNCHANGED lines_for_evaluation
                ELSE LET r == process_git_diff(diff.patch)
                     IN  IF r.exc # ""
                         THEN /\ run_exc' = r.exc
                              /\ mpc' = "raised"
                              /\ seen' = Put(seen, k,
                                    [diff |-> diff, via |-> "raise",
                                     lines |-> {}])
                              /\ UNCHANGED lines_for_evaluation
                         ELSE /\ lines_for_evaluation' =
                                    Put(lines_for_evaluation, k,
                                        match_lines_to_ast(nodes, k, r.lines))
                              /\ seen' = Put(seen, k,
                                    [diff |-> diff, via |-> "diff",
                                     lines |-> r.lines])
                              /\ UNCHANGED <<run_exc, mpc>>
    /\ UNCHANGED <<config, shapes, covered_nodes, nodes, repo_diff,
                   diffed_map, doc_nodes>>
    /\ UNCHANGED <<diffVars, treeVars, filterVars, skipVars, genVars, fileVars, rewriteVars>>

\* extract_diff: _extract_lines returns, _analyze_covered_nodes filters and
\* prunes, and Documenter.document takes the result as `nodes`
AnalyzeCoveredNodes ==
    /\ mpc = "extract_lines"
    /\ Len(keys) = 0
    /\ doc_nodes' = analyze_covered_nodes(config, lines_for_evaluation)
    /\ mpc' = "handoff"
    /\ UNCHANGED <<config, shapes, covered_nodes, nodes, repo_diff,
                   diffed_map, keys, lines_for_evaluation, seen, run_exc>>
    /\ UNCHANGED <<diffVars, treeVars, filterVars, skipVars, genVars, fileVars, rewriteVars>>

\* Documenter.document: `if nodes:` hands the mapping to the Commenter
\* (mpc = "commenting": Commenter(config).document(nodes) is called), else
\* prints "Nothing to comment." and returns
Handoff ==
    /\ mpc = "handoff"
    /\ mpc' = IF has_nodes(doc_nodes) THEN "commenting" ELSE "nothing"
    /\ UNCHANGED <<config, shapes, covered_nodes, nodes, repo_diff,
                   diffed_map, keys, lines_for_evaluation, seen, doc_nodes,
                   run_exc>>
    /\ UNCHANGED <<diffVars, treeVars, filterVars, skipVars, genVars, fileVars, rewriteVars>>

NextMap ==
    \/ GetCoverage
    \/ GitInit
    \/ ExtractLinesStep
    \/ AnalyzeCoveredNodes
    \/ Handoff

SpecMap == InitMap /\ [][NextMap]_vars

\* ------------------------------------------------------------------------
\* SpecFilter: Extract._get_file_coverage after visitor.visit, one rule of
\* the Scope Filter per step, and the filter applied again to its result
\* ------------------------------------------------------------------------
\* The definitions the files of this specification are made of: classes and
\* functions, with and without a docstring, and functions named __init__
FilterAlphabet ==
    { <<"ClassDef", "C", "none">>, <<"ClassDef", "C", "own">>,
      <<"FunctionDef", "f", "none">>,
      <<"FunctionDef", "__init__", "none">>,
      <<"FunctionDef", "__init__", "own">> }

FilterDefs(maxDepth) ==
    { DefNamed(e[1], e[2], e[3], k) : e \in FilterAlphabet, k \in 1..maxDepth }

RECURSIVE FilterShapesOfLen(_)
FilterShapesOfLen(n) ==
    IF n = 0
    THEN { << >> }
    ELSE UNION { { Append(sh, c) :
                     c \in { e \in FilterDefs(n) :
                               e.depth <= LastDepth(sh) + 1 } } :
                 sh \in FilterShapesOfLen(n - 1) }

\* Longer files: a class with two __init__ definitions, one documented (in
\* both orders); a function in a function in a function; a documented class
\* holding a class with a documented __init__; a class in a class with a
\* method and a function in the method; a class in a function with a
\* documented __init__ and a function in it
DeepShapes ==
    { << Def("ClassDef", "none", 1),
         DefNamed("FunctionDef", "__init__", "none", 2),
         DefNamed("FunctionDef", "__init__", "own", 2) >>,
      << Def("ClassDef", "none", 1),
         DefNamed("FunctionDef", "__init__", "own", 2),
         DefNamed("FunctionDef", "__init__", "none", 2) >>,
      << Def("FunctionDef", "none", 1), Def("FunctionDef", "none", 2),
         Def("FunctionDef", "none", 3) >>,
      << Def("ClassDef", "own", 1), Def("ClassDef", "none", 2),
         DefNamed("FunctionDef", "__init__", "own", 3) >>,
      << Def("ClassDef", "none", 1), Def("ClassDef", "none", 2),
         Def("FunctionDef", "none", 3), Def("FunctionDef", "none", 4) >>,
      << Def("FunctionDef", "none", 1), Def("ClassDef", "none", 2),
         DefNamed("FunctionDef", "__init__", "own", 3),
         Def("FunctionDef", "none", 4) >> }

FilterShapes ==
    UNION { FilterShapesOfLen(n) : n \in 0..MaxFilterDefs } \cup DeepShapes

FilterConfigs ==
    { [NoSkipConfig EXCEPT !.ignore_module = m,
                            !.ignore_nested_functions = nf,
                            !.ignore_nested_classes = nc,
                            !.docstring_style = st] :
        m \in BOOLEAN, nf \in BOOLEAN, nc \in BOOLEAN,
        st \in {"sphinx", "google"} }

InitFilter ==
    /\ fpc = "filter_nodes"
    /\ fconfig \in FilterConfigs
    /\ \E shape \in FilterShapes :
          fall = visit(fconfig, "a.py", SourceOf(shape),
                       AstOf("a.py", shape)).nodes
    /\ flist = fall
    /\ fcovered = covered_flags(fall)
    /\ ffirst = << >>
    /\ DiffIdle
    /\ TreeIdle
    /\ MapIdle
    /\ SkipIdle
    /\ GenIdle
    /\ FilesIdle
    /\ RewriteIdle

\* filtered_nodes = self._filter_nodes(visitor.nodes), and the return of
\* None when nothing is left
FilterNodes ==
    /\ fpc = "filter_nodes"
    /\ flist' = filter_nodes(fconfig, flist)
    /\ IF Len(flist') = 0
       THEN /\ fpc' = "returned"
            /\ ffirst' = [none |-> TRUE, nodes |-> << >>,
                          covered |-> fcovered]
       ELSE /\ fpc' = "nested_functions"
            /\ UNCHANGED ffirst
    /\ UNCHANGED <<fconfig, fall, fcovered>>
    /\ UNCHANGED <<diffVars, treeVars, mapVars, skipVars, genVars, fileVars, rewriteVars>>

\* if self.config.ignore_nested_functions: ...
NestedFunctions ==
    /\ fpc = "nested_functions"
    /\ flist' = keep_nested_funcs(fconfig, flist)
    /\ fpc' = "nested_classes"
    /\ UNCHANGED <<fconfig, fall, fcovered, ffirst>>
    /\ UNCHANGED <<diffVars, treeVars, mapVars, skipVars, genVars, fileVars, rewriteVars>>

\* if self.config.ignore_nested_classes: ...
NestedClasses ==
    /\ fpc = "nested_classes"
    /\ flist' = drop_nested_classes(fconfig, flist)
    /\ fpc' = "style"
    /\ UNCHANGED <<fconfig, fall, fcovered, ffirst>>
    /\ UNCHANGED <<diffVars, treeVars, mapVars, skipVars, genVars, fileVars, rewriteVars>>

\* if self.config.docstring_style == "google": ..., and return
SetStyle ==
    /\ fpc = "style"
    /\ fcovered' = propagate_style(fconfig, flist, fcovered)
    /\ ffirst' = [none |-> FALSE, nodes |-> flist, covered |-> fcovered']
    /\ fpc' = "returned"
    /\ UNCHANGED <<fconfig, fall, flist>>
    /\ UNCHANGED <<diffVars, treeVars, mapVars, skipVars, genVars, fileVars, rewriteVars>>

\* The same rules, with the same configuration, on the list returned
Refilter ==
    /\ fpc = "returned"
    /\ ~ffirst.none
    /\ LET r == filter_chain(fconfig, flist, fcovered)
       IN  /\ flist' = r.nodes
           /\ fcovered' = r.covered
    /\ fpc' = "refiltered"
    /\ UNCHANGED <<fconfig, fall, ffirst>>
    /\ UNCHANGED <<diffVars, treeVars, mapVars, skipVars, genVars, fileVars, rewriteVars>>

NextFilter ==
    \/ FilterNodes
    \/ NestedFunctions
    \/ NestedClasses
    \/ SetStyle
    \/ Refilter

SpecFilter == InitFilter /\ [][NextFilter]_vars

\* ------------------------------------------------------------------------
\* SpecSkip: the Visitor reaches one class or function node:
\* visit_ClassDef, visit_FunctionDef, visit_AsyncFunctionDef
\* ------------------------------------------------------------------------
\* The names: every identifier of underscores and letters up to MaxNameLen
\* characters, and __init__
SkipNames ==
    UNION { [1..n -> {"_", "x"}] : n \in 1..MaxNameLen } \cup { InitName }

Decorators ==
    { NameDec("property"), NameDec("overload"), NameDec("staticmethod"),
      AttrDec("x", "setter"), AttrDec("x", "deleter"),
      AttrDec("typing", "overload"), CallDec }

DecoratorLists ==
    { << >> } \cup { << d >> : d \in Decorators }
    \cup { << NameDec("staticmethod"), NameDec("property") >>,
           << CallDec, AttrDec("x", "setter") >> }

SkipNodes ==
    { [type |-> "ClassDef", name |-> nm, decorator_list |-> << >>] :
        nm \in SkipNames }
    \cup { [type |-> t, name |-> nm, decorator_list |-> dl] :
             t \in {"FunctionDef", "AsyncFunctionDef"}, nm \in SkipNames,
             dl \in DecoratorLists }

SkipConfigs ==
    { [DefaultConfig EXCEPT
         !.ignore_private = p, !.ignore_semiprivate = sp,
         !.ignore_init_method = i, !.ignore_magic = mg,
         !.ignore_property_decorators = pd, !.ignore_property_setters = ps,
         !.ignore_overloaded_functions = ov] :
        p \in BOOLEAN, sp \in BOOLEAN, i \in BOOLEAN, mg \in BOOLEAN,
        pd \in BOOLEAN, ps \in BOOLEAN, ov \in BOOLEAN }

InitSkip ==
    /\ spc = "visit"
    /\ sconfig \in SkipConfigs
    /\ snode \in SkipNodes
    /\ svisited = FALSE
    /\ DiffIdle
    /\ TreeIdle
    /\ MapIdle
    /\ FilterIdle
    /\ GenIdle
    /\ FilesIdle
    /\ RewriteIdle

\* Visitor.visit_ClassDef: _visit_helper runs unless the class is ignored
VisitClassDef ==
    /\ spc = "visit"
    /\ snode.type = "ClassDef"
    /\ svisited' = ~is_class_ignored(sconfig, snode)
    /\ spc' = "done"
    /\ UNCHANGED <<sconfig, snode>>
    /\ UNCHANGED <<diffVars, treeVars, mapVars, filterVars, genVars, fileVars, rewriteVars>>

\* Visitor.visit_FunctionDef
VisitFunctionDef ==
    /\ spc = "visit"
    /\ snode.type = "FunctionDef"
    /\ svisited' = ~is_func_ignored(sconfig, snode)
    /\ spc' = "done"
    /\ UNCHANGED <<sconfig, snode>>
    /\ UNCHANGED <<diffVars, treeVars, mapVars, filterVars, genVars, fileVars, rewriteVars>>

\* Visitor.visit_AsyncFunctionDef
VisitAsyncFunctionDef ==
    /\ spc = "visit"
    /\ snode.type = "AsyncFunctionDef"
    /\ svisited' = ~is_func_ignored(sconfig, snode)
    /\ spc' = "done"
    /\ UNCHANGED <<sconfig, snode>>
    /\ UNCHANGED <<diffVars, treeVars, mapVars, filterVars, genVars, fileVars, rewriteVars>>

NextSkip ==
    \/ VisitClassDef
    \/ VisitFunctionDef
    \/ VisitAsyncFunctionDef

SpecSkip == InitSkip /\ [][NextSkip]_vars

\* ------------------------------------------------------------------------
\* SpecGen: Commenter.document(nodes): per file, comment() builds the
\* prompts, process_prompts runs one task per prompt on the event loop,
\* and Parser.process receives the responses without the sentinel
\* ------------------------------------------------------------------------
\* The mappings handed to the Commenter: the records of
\*   a documented class with a method, and a second file with one function;
\*   two classes with a method of the same name each;
\*   a file with no definition (its module record only)
GenDisks ==
    { [f \in {"a.py", "b.py"} |->
         IF f = "a.py"
         THEN << Def("ClassDef", "own", 1), Def("FunctionDef", "none", 2) >>
         ELSE << Def("FunctionDef", "none", 1) >>],
      [f \in {"a.py"} |->
         << Def("ClassDef", "none", 1), Def("FunctionDef", "none", 2),
            DefNamed("ClassDef", "D", "none", 1),
            Def("FunctionDef", "none", 2) >>],
      [f \in {"a.py"} |-> << >>] }

GenConfig == [NoSkipConfig EXCEPT !.ignore_module = FALSE,
                                  !.include_only_covered = FALSE]

\* response.output_text of a successful request
OutputTexts == { NO_CHANGE, "Doc.", "-1\n" }

InitGen ==
    /\ cpc = "document"
    /\ \E disk \in GenDisks : cnodes = results_of(GenConfig, disk)
    /\ cfiles = KeysOf(cnodes)
    /\ cfile = ""
    /\ prompts = EmptyDict
    /\ tasks = EmptyDict
    /\ responses = EmptyDict
    /\ finished = << >>
    /\ awaited = 0
    /\ logged = << >>
    /\ requests = << >>
    /\ processed = << >>
    /\ DiffIdle
    /\ TreeIdle
    /\ MapIdle
    /\ FilterIdle
    /\ SkipIdle
    /\ FilesIdle
    /\ RewriteIdle

\* Commenter.document: the next file; asyncio.run(self.comment(nodes[file]))
\* up to the call of process_prompts
Comment ==
    /\ cpc = "document"
    /\ Len(cfiles) > 0
    /\ cfile' = Head(cfiles)
    /\ cfiles' = Tail(cfiles)
    /\ prompts' = prompts_of(cnodes[Head(cfiles)])
    /\ tasks' = EmptyDict
    /\ responses' = EmptyDict
    /\ finished' = << >>
    /\ awaited' = 0
    /\ logged' = << >>
    /\ requests' = << >>
    /\ cpc' = "tasks"
    /\ UNCHANGED <<cnodes, processed>>
    /\ UNCHANGED <<diffVars, treeVars, mapVars, filterVars, skipVars, fileVars, rewriteVars>>

\* process_prompts: responses = {}, one asyncio.create_task per prompt
CreateTasks ==
    /\ cpc = "tasks"
    /\ tasks' = [n \in DOMAIN prompts |-> "created"]
    /\ cpc' = "await"
    /\ UNCHANGED <<cnodes, cfiles, cfile, prompts, responses, finished,
                   awaited, logged, requests, processed>>
    /\ UNCHANGED <<diffVars, treeVars, mapVars, filterVars, skipVars, fileVars, rewriteVars>>

\* A task runs once the main coroutine awaits: process_prompt,
\* openai_process up to `await self._client_api.responses.create(...)`
TaskStart ==
    /\ cpc = "await"
    /\ \E n \in DOMAIN tasks :
         /\ tasks[n] = "created"
         /\ tasks' = [tasks EXCEPT ![n] = "requesting"]
         /\ requests' = Append(requests, n)
    /\ UNCHANGED <<cpc, cnodes, cfiles, cfile, prompts, responses, finished,
                   awaited, logged, processed>>
    /\ UNCHANGED <<diffVars, treeVars, mapVars, filterVars, skipVars, fileVars, rewriteVars>>

\* The request returns: responses[node_name] = response.output_text
TaskSucceed ==
    /\ cpc = "await"
    /\ \E n \in DOMAIN tasks : \E text \in OutputTexts :
         /\ tasks[n] = "requesting"
         /\ tasks' = [tasks EXCEPT ![n] = "ok"]
         /\ responses' = Put(responses, n, text)
         /\ finished' = Append(finished, n)
    /\ UNCHANGED <<cpc, cnodes, cfiles, cfile, prompts, awaited, logged,
                   requests, processed>>
    /\ UNCHANGED <<diffVars, treeVars, mapVars, filterVars, skipVars, fileVars, rewriteVars>>

\* The request raises: the task ends with the exception
TaskFail ==
    /\ cpc = "await"
    /\ \E n \in DOMAIN tasks :
         /\ tasks[n] = "requesting"
         /\ tasks' = [tasks EXCEPT ![n] = "failed"]
         /\ finished' = Append(finished, n)
    /\ UNCHANGED <<cpc, cnodes, cfiles, cfile, prompts, responses, awaited,
                   logged, requests, processed>>
    /\ UNCHANGED <<diffVars, treeVars, mapVars, filterVars, skipVars, fileVars, rewriteVars>>

\* One iteration of `for fut in asyncio.as_completed(tasks)`: the next
\* finished task is awaited; try / except Exception / finally
AwaitNext ==
    /\ cpc = "await"
    /\ awaited < Len(finished)
    /\ LET n == finished[awaited + 1]
       IN  /\ logged' = IF tasks[n] = "failed" THEN Append(logged, n)
                        ELSE logged
           /\ cpc' = after_await(tasks[n])
    /\ awaited' = awaited + 1
    /\ UNCHANGED <<cnodes, cfiles, cfile, prompts, tasks, responses,
                   finished, requests, processed>>
    /\ UNCHANGED <<diffVars, treeVars, mapVars, filterVars, skipVars, fileVars, rewriteVars>>

\* as_completed is exhausted: process_prompts and comment return responses
Return ==
    /\ cpc = "await"
    /\ awaited = Cardinality(DOMAIN tasks)
    /\ cpc' = "returned"
    /\ UNCHANGED <<cnodes, cfiles, cfile, prompts, tasks, responses,
                   finished, awaited, logged, requests, processed>>
    /\ UNCHANGED <<diffVars, treeVars, mapVars, filterVars, skipVars, fileVars, rewriteVars>>

\* Commenter.document: the sentinel is filtered out and
\* self.parser.process(Path(file), docs) is called
Process ==
    /\ cpc = "returned"
    /\ processed' = Append(processed,
                           [file |-> cfile, docs |-> exclude_sentinel(responses)])
    /\ cpc' = "document"
    /\ UNCHANGED <<cnodes, cfiles, cfile, prompts, tasks, responses,
                   finished, awaited, logged, requests>>
    /\ UNCHANGED <<diffVars, treeVars, mapVars, filterVars, skipVars, fileVars, rewriteVars>>

\* No file is left: Commenter.document returns
Finish ==
    /\ cpc = "document"
    /\ Len(cfiles) = 0
    /\ cpc' = "done"
    /\ UNCHANGED <<cnodes, cfiles, cfile, prompts, tasks, responses,
                   finished, awaited, logged, requests, processed>>
    /\ UNCHANGED <<diffVars, treeVars, mapVars, filterVars, skipVars, fileVars, rewriteVars>>

NextGen ==
    \/ Comment
    \/ CreateTasks
    \/ TaskStart
    \/ TaskSucceed
    \/ TaskFail
    \/ AwaitNext
    \/ Return
    \/ Process
    \/ Finish

SpecGen == InitGen /\ [][NextGen]_vars

\* ------------------------------------------------------------------------
\* SpecFiles: Extract(paths).get_filenames_from_path(), one file per step
\* ------------------------------------------------------------------------
\* The directory that is scanned
Root == <<"r">>

\* The files a disk may hold, in the order os.walk lists them
WalkOrder ==
    << <<"r", "/", "a", ".", "p", "y">>,
       <<"r", "/", "b", ".", "p", "y", "i">>,
       <<"r", "/", "_", "_", "i", "n", "i", "t", "_", "_", ".", "p", "y">>,
       <<"r", "/", "_", "_", "i", "n", "i", "t", "_", "_">>,
       <<"r", "/", "n", ".", "t", "x", "t">>,
       <<"r", "/", "d", ".", "n", "p", "y">>,
       <<"r", "/", "v", "e", "n", "v", ".", "p", "y">>,
       <<"r", "/", ".", "v", "e", "n", "v", "/", "v", ".", "p", "y">>,
       <<"r", "/", "s", "/", "c", ".", "p", "y">>,
       <<"r", "/", "s", "/", ".", "v", "e", "n", "v", "/", "w", ".", "p", "y">> >>

FileCatalogue == Range(WalkOrder)

\* os.walk(path): the files below `path`, none if it is not a directory
walk(path, files) ==
    SelectSeq(WalkOrder, LAMBDA f :
        f \in files /\ StartsWith(f, path \o <<"/">>))

\* Extract.__init__ on one path: the directory or one file path
InitFiles ==
    /\ wpc = "start"
    /\ paths \in { <<Root>> } \cup { <<f>> : f \in FileCatalogue }
    /\ tree_files \in SUBSET FileCatalogue
    /\ excluded = add_common_exclude(paths)
    /\ full_paths = << >>
    /\ filenames = << >>
    /\ DiffIdle
    /\ TreeIdle
    /\ MapIdle
    /\ FilterIdle
    /\ SkipIdle
    /\ GenIdle
    /\ RewriteIdle

\* os.path.isfile(path) and the extension is valid: the path is taken
AddFile ==
    /\ wpc = "start"
    /\ paths[1] \in tree_files
    /\ has_valid_extension(paths[1])
    /\ filenames' = Append(filenames, paths[1])
    /\ wpc' = "end"
    /\ UNCHANGED <<paths, tree_files, excluded, full_paths>>
    /\ UNCHANGED <<diffVars, treeVars, mapVars, filterVars, skipVars, genVars, rewriteVars>>

\* os.path.isfile(path) and the extension is not valid: sys.exit(1)
InvalidFile ==
    /\ wpc = "start"
    /\ paths[1] \in tree_files
    /\ ~has_valid_extension(paths[1])
    /\ wpc' = "exited"
    /\ UNCHANGED <<paths, tree_files, excluded, full_paths, filenames>>
    /\ UNCHANGED <<diffVars, treeVars, mapVars, filterVars, skipVars, genVars, rewriteVars>>

\* The path is not a file: os.walk(path)
Walk ==
    /\ wpc = "start"
    /\ paths[1] \notin tree_files
    /\ full_paths' = walk(paths[1], tree_files)
    /\ wpc' = "walk"
    /\ UNCHANGED <<paths, tree_files, excluded, filenames>>
    /\ UNCHANGED <<diffVars, treeVars, mapVars, filterVars, skipVars, genVars, rewriteVars>>

\* One iteration of the loop of _filter_files
FilterFile ==
    /\ wpc = "walk"
    /\ Len(full_paths) > 0
    /\ filenames' = IF filter_file(excluded, Head(full_paths))
                    THEN Append(filenames, Head(full_paths))
                    ELSE filenames
    /\ full_paths' = Tail(full_paths)
    /\ UNCHANGED <<wpc, paths, tree_files, excluded>>
    /\ UNCHANGED <<diffVars, treeVars, mapVars, filterVars, skipVars, genVars, rewriteVars>>

\* os.walk is exhausted
WalkEnd ==
    /\ wpc = "walk"
    /\ Len(full_paths) = 0
    /\ wpc' = "end"
    /\ UNCHANGED <<paths, tree_files, excluded, full_paths, filenames>>
    /\ UNCHANGED <<diffVars, treeVars, mapVars, filterVars, skipVars, genVars, rewriteVars>>

\* `if not filenames: sys.exit(1)`, else the list is returned
ReturnFilenames ==
    /\ wpc = "end"
    /\ wpc' = IF Len(filenames) = 0 THEN "exited" ELSE "returned"
    /\ UNCHANGED <<paths, tree_files, excluded, full_paths, filenames>>
    /\ UNCHANGED <<diffVars, treeVars, mapVars, filterVars, skipVars, genVars, rewriteVars>>

NextFiles ==
    \/ AddFile
    \/ InvalidFile
    \/ Walk
    \/ FilterFile
    \/ WalkEnd
    \/ ReturnFilenames

SpecFiles == InitFiles /\ [][NextFiles]_vars

\* ------------------------------------------------------------------------
\* SpecRewrite: Transformer(config, comments).visit(tree), and a second
\* Transformer with the same comments on the result; one node per step
\* ------------------------------------------------------------------------
\* The texts the generation step may have returned for a name
RewriteTexts ==
    { <<"D">>,
      TripleQuote \o <<"D">> \o TripleQuote,
      TripleQuote \o <<"D">>,
      TripleQuote,
      << >> }

\* The mappings: no name, one name, two names
RewriteComments ==
    { EmptyDict }
      \cup { Put(EmptyDict, "C", t) : t \in RewriteTexts }
      \cup { Put(EmptyDict, "f", t) : t \in RewriteTexts }
      \cup { Put(Put(EmptyDict, "C", TripleQuote \o <<"D">> \o TripleQuote),
                 "f", <<"D">>) }

\* The bodies: no documentation string, one, a constant that is not a str
RewriteBodies ==
    { <<PassStmt>>, <<DocStmt(<<"E">>), PassStmt>>, <<ConstStmt, PassStmt>> }

RewriteNodes(maxDepth) ==
    { RewriteNode(e[1], e[2], k, b) :
        e \in { <<"ClassDef", "C">>, <<"FunctionDef", "f">>,
                <<"AsyncFunctionDef", "f">> },
        k \in 1..maxDepth, b \in RewriteBodies }

RECURSIVE RewriteTreesOfLen(_)
RewriteTreesOfLen(n) ==
    IF n = 0
    THEN { << >> }
    ELSE UNION { { Append(sh, c) :
                     c \in { e \in RewriteNodes(n) :
                               e.depth <= LastDepth(sh) + 1 } } :
                 sh \in RewriteTreesOfLen(n - 1) }

RewriteTrees == UNION { RewriteTreesOfLen(n) : n \in 1..MaxRewriteDefs }

\* Parser.process: the tree is parsed and the Transformer built
InitRewrite ==
    /\ rpc = "visit"
    /\ comments \in RewriteComments
    /\ rtree0 \in RewriteTrees
    /\ rtree = rtree0
    /\ rtree1 = << >>
    /\ rorder = post_order(rtree0)
    /\ rpass = 1
    /\ DiffIdle
    /\ TreeIdle
    /\ MapIdle
    /\ FilterIdle
    /\ SkipIdle
    /\ GenIdle
    /\ FilesIdle

\* visit_ClassDef / visit_FunctionDef / visit_AsyncFunctionDef after their
\* generic_visit: _visit_helper on the node
LeaveNode ==
    /\ rpc = "visit"
    /\ Len(rorder) > 0
    /\ rtree' = [rtree EXCEPT
                   ![Head(rorder)] = transformer_visit_helper(comments, @)]
    /\ rorder' = Tail(rorder)
    /\ UNCHANGED <<rpc, comments, rtree0, rtree1, rpass>>
    /\ UNCHANGED <<diffVars, treeVars, mapVars, filterVars, skipVars, genVars,
                   fileVars>>

\* The first Transformer returns; a second one is run on its result
SecondTransformer ==
    /\ rpc = "visit"
    /\ Len(rorder) = 0
    /\ rpass = 1
    /\ rtree1' = rtree
    /\ rorder' = post_order(rtree)
    /\ rpass' = 2
    /\ UNCHANGED <<rpc, comments, rtree0, rtree>>
    /\ UNCHANGED <<diffVars, treeVars, mapVars, filterVars, skipVars, genVars,
                   fileVars>>

\* The second Transformer returns
RewriteDone ==
    /\ rpc = "visit"
    /\ Len(rorder) = 0
    /\ rpass = 2
    /\ rpc' = "done"
    /\ UNCHANGED <<comments, rtree0, rtree, rtree1, rorder, rpass>>
    /\ UNCHANGED <<diffVars, treeVars, mapVars, filterVars, skipVars, genVars,
                   fileVars>>

NextRewrite ==
    \/ LeaveNode
    \/ SecondTransformer
    \/ RewriteDone

SpecRewrite == InitRewrite /\ [][NextRewrite]_vars

\* ------------------------------------------------------------------------
\* Diff Parser: properties
\* ------------------------------------------------------------------------
\* The marker a diff line carries, as a unified diff defines it
IsContextLine(l) == ~l.hunk /\ Len(l.s) > 0 /\ l.s[1] = " "

IsAddedLine(l) == ~l.hunk /\ Len(l.s) > 0 /\ l.s[1] = "+"

IsRemovedLine(l) == ~l.hunk /\ Len(l.s) > 0 /\ l.s[1] = "-"

\* Index in `consumed` of the hunk header that governs line j (0 if none)
HeaderOf(j) ==
    LET hs == { h \in 1..(j - 1) : consumed[h].hunk }
    IN  IF hs = {} THEN 0 ELSE CHOOSE h \in hs : \A g \in hs : g <= h

CountBefore(j, P(_)) ==
    Cardinality({ m \in (HeaderOf(j) + 1)..(j - 1) : P(consumed[m]) })

OldSide(l) == IsContextLine(l) \/ IsRemovedLine(l)

NewSide(l) == IsContextLine(l) \/ IsAddedLine(l)

\* C4: every record carries the line number its line has in the hunk:
\* oldLine = o + (Context and Removed lines before it in the hunk),
\* newLine = n + (Context and Added lines before it in the hunk).
C4_LineNumbering ==
    \A i \in 1..Len(changes) :
        LET j == origin[i]
            h == HeaderOf(j)
            rec == changes[i]
        IN  /\ h > 0
            /\ rec.kind \in {BLANK, REMOVE} =>
                 rec.old_lineno = Some(consumed[h].old + CountBefore(j, OldSide))
            /\ rec.kind \in {BLANK, ADD} =>
                 rec.new_lineno = Some(consumed[h].new + CountBefore(j, NewSide))

\* Records i of the hunk of record k that come before k and carry a number
\* on the given side
EarlierOld(k) ==
    { i \in 1..(k - 1) : /\ HeaderOf(origin[i]) = HeaderOf(origin[k])
                         /\ changes[i].old_lineno # None }

EarlierNew(k) ==
    { i \in 1..(k - 1) : /\ HeaderOf(origin[i]) = HeaderOf(origin[k])
                         /\ changes[i].new_lineno # None }

\* C5: an Added record has newLine only, a Removed record oldLine only, a
\* Context record both; within a hunk the numbers of successive records never
\* decrease, and they restart from the header's values at each header.
C5_RecordShape ==
    \A k \in 1..Len(changes) :
        LET rec == changes[k]
            hdr == consumed[HeaderOf(origin[k])]
        IN  /\ rec.kind \in {ADD, REMOVE, BLANK}
            /\ rec.kind = ADD =>
                 rec.new_lineno # None /\ rec.old_lineno = None
            /\ rec.kind = REMOVE =>
                 rec.old_lineno # None /\ rec.new_lineno = None
            /\ rec.kind = BLANK =>
                 rec.old_lineno # None /\ rec.new_lineno # None
            /\ HeaderOf(origin[k]) > 0
            /\ rec.old_lineno # None =>
                 /\ \A i \in EarlierOld(k) :
                        changes[i].old_lineno[1] <= rec.old_lineno[1]
                 /\ EarlierOld(k) = {} => rec.old_lineno[1] = hdr.old
            /\ rec.new_lineno # None =>
                 /\ \A i \in EarlierNew(k) :
                        changes[i].new_lineno[1] <= rec.new_lineno[1]
                 /\ EarlierNew(k) = {} => rec.new_lineno[1] = hdr.new

\* A second hunk has started after a hunk that emitted a Context, an Added
\* and a Removed record... (the three kinds in one hunk)
C5_Witness ==
    /\ \E i, j, k \in 1..Len(changes) :
          /\ changes[i].kind = BLANK
          /\ changes[j].kind = ADD
          /\ changes[k].kind = REMOVE
          /\ HeaderOf(origin[i]) = HeaderOf(origin[j])
          /\ HeaderOf(origin[j]) = HeaderOf(origin[k])

\* C6: process_changes returns exactly { newLine if present, otherwise
\* oldLine } over the records that are not Context and whose text is not
\* empty or whitespace-only.
Selected(rec) ==
    IF rec.new_lineno # None THEN rec.new_lineno[1] ELSE rec.old_lineno[1]

C6_Reduction ==
    dpc = "reduced" =>
        lines = { Selected(changes[i]) :
                    i \in { k \in 1..Len(changes) :
                              /\ changes[k].kind # BLANK
                              /\ ~IsBlank(changes[k].text) } }

\* A reduction over a Context record, a whitespace-only Added record and a
\* non-blank Removed record
C6_Witness ==
    /\ dpc = "reduced"
    /\ lines # {}
    /\ \E i, j, k \in 1..Len(changes) :
          /\ changes[i].kind = BLANK
          /\ changes[j].kind = ADD /\ IsBlank(changes[j].text)
          /\ changes[k].kind = REMOVE /\ ~IsBlank(changes[k].text)

\* C7: parse_diff never raises on a text; a record comes only from a
\* context/added/removed marker line that follows a hunk header.
C7_NeverRaises ==
    /\ ~diff_none => exc = ""
    /\ \A i \in 1..Len(changes) :
          LET l == consumed[origin[i]]
          IN  /\ IsContextLine(l) \/ IsAddedLine(l) \/ IsRemovedLine(l)
              /\ HeaderOf(origin[i]) > 0

\* C8: absent diff text yields the empty changed-line set instead of raising.
C8_NoneAccepted ==
    diff_none => /\ exc = ""
                 /\ dpc = "reduced" => lines = {}

\* ------------------------------------------------------------------------
\* Definition Tree Builder: properties
\* ------------------------------------------------------------------------
\* lineSpan of a record: the number of lines of its stored code
lineSpan(r) == code_line_count(r.code)

\* C2: the extent of a record's parent contains the record's extent (a parent
\* without a start line, the module-level record, has no extent to compare).
C2_ParentContainsChild ==
    \A k \in 1..Len(visitor_nodes) :
        LET child == visitor_nodes[k]
        IN  child.parent # 0 =>
              LET parent == visitor_nodes[child.parent]
              IN  parent.lineno # None =>
                    /\ parent.lineno[1] <= child.lineno[1]
                    /\ child.lineno[1] + lineSpan(child)
                         <= parent.lineno[1] + lineSpan(parent)

\* ------------------------------------------------------------------------
\* Change Mapper: properties
\* ------------------------------------------------------------------------
\* The records of file k in the snapshot
RecordsOf(k) == IF k \in DOMAIN nodes THEN Range(nodes[k]) ELSE {}

\* The key the loop of _extract_lines has just visited
JustVisited ==
    LET all == KeysOf(diffed_map)
    IN  IF mpc = "extract_lines" /\ Len(all) > Len(keys)
        THEN { all[Len(all) - Len(keys)] }
        ELSE {}

\* C1: for a file mapped through its diff, the result is exactly the set of
\* its records with nestingLevel > 0 whose extent [startLine, startLine +
\* lineSpan) holds a changed line; and matching distributes over the union
\* of line sets (checked on each file when the loop has just mapped it).
C1_LineMatching ==
    \A k \in DOMAIN seen :
        seen[k].via = "diff" =>
          /\ lines_for_evaluation[k] =
               { r \in RecordsOf(k) :
                   /\ r.level > 0
                   /\ \E l \in seen[k].lines :
                         /\ r.lineno[1] <= l
                         /\ l < r.lineno[1] + lineSpan(r) }
          /\ k \in JustVisited =>
               \A L1, L2 \in SUBSET seen[k].lines :
                  match_lines_to_ast(nodes, k, L1 \cup L2) =
                    match_lines_to_ast(nodes, k, L1)
                      \cup match_lines_to_ast(nodes, k, L2)

\* A changed-line set with a line outside every extent and a line inside a
\* method: the method and its class are both returned, the module-level
\* record of the snapshot is not
C1_Witness ==
    \E k \in DOMAIN seen :
        /\ seen[k].via = "diff"
        /\ 1 \in seen[k].lines
        /\ \E m \in RecordsOf(k) : m.level = 0
        /\ \E r1, r2 \in lines_for_evaluation[k] : r2.parent = r1.id

\* C3: a file classified Added whose path is in the snapshot is mapped to
\* its entire record list, whatever the scoped diff holds.
C3_AddedFastPath ==
    \A k \in DOMAIN seen :
        (/\ diffed_map[k] = "A"
         /\ k \in DOMAIN nodes
         /\ seen[k].diff.entries <= 1) =>
            /\ k \in DOMAIN lines_for_evaluation
            /\ lines_for_evaluation[k] = Range(nodes[k])

\* An Added file of two records or more whose diff changes line 1 only
C3_Witness ==
    \E k \in DOMAIN seen :
        /\ diffed_map[k] = "A"
        /\ k \in DOMAIN nodes
        /\ seen[k].diff.entries = 1
        /\ ~seen[k].diff.patch.none
        /\ process_git_diff(seen[k].diff.patch).lines = {1}
        /\ Cardinality(lines_for_evaluation[k]) >= 2

\* C9: against the staged index, A is recorded as D and D as A and every
\* other status unchanged; against a committed revision every status is
\* recorded unchanged; the Added fast path reads the recorded status.
RecordedAdded(k) ==
    \/ config.run_staged /\ repo_diff[k] = "D"
    \/ ~config.run_staged /\ repo_diff[k] = "A"

C9_Inversion ==
    mpc \notin {"start", "git"} /\ config.run_on_diff =>
      /\ DOMAIN diffed_map = DOMAIN repo_diff \ {"c.txt"}
      /\ \A k \in DOMAIN diffed_map :
            diffed_map[k] =
              IF config.run_staged /\ repo_diff[k] = "A" THEN "D"
              ELSE IF config.run_staged /\ repo_diff[k] = "D" THEN "A"
              ELSE repo_diff[k]
      /\ \A k \in DOMAIN seen :
            seen[k].diff.entries <= 1 =>
              (seen[k].via = "fast" <=>
                 (RecordedAdded(k) /\ k \in DOMAIN nodes))

\* Against the staged index, a file the repository reports as D took the
\* Added fast path and one it reports as A or R was mapped through its diff
C9_Witness ==
    /\ config.run_staged
    /\ \E k \in DOMAIN seen : repo_diff[k] = "D" /\ seen[k].via = "fast"
    /\ \E k \in DOMAIN seen :
          repo_diff[k] \in {"A", "R"} /\ seen[k].via = "diff"

\* C10: the mapping handed to the generation step holds no file with an
\* empty record set; a changed file whose mapped set is empty after
\* filtering is not in it.
C10_NoEmptyWorkUnits ==
    mpc \in {"handoff", "commenting", "nothing"} =>
      /\ \A k \in DOMAIN doc_nodes : doc_nodes[k] # {}
      /\ config.run_on_diff =>
           \A k \in DOMAIN lines_for_evaluation :
              (IF config.include_only_covered
               THEN \A r \in lines_for_evaluation[k] : ~r.covered
               ELSE lines_for_evaluation[k] = {})
                 => k \notin DOMAIN doc_nodes

\* The Commenter is called with one changed file while another changed
\* file, whose mapped set was empty, has been removed
C10_Witness ==
    /\ mpc = "commenting"
    /\ config.run_on_diff
    /\ DOMAIN doc_nodes # {}
    /\ \E k \in DOMAIN lines_for_evaluation : k \notin DOMAIN doc_nodes

\* ------------------------------------------------------------------------
\* C11: when the per-file mapping is empty after reduction, the run returns
\* from Documenter.document without an exception and without calling the
\* Commenter, and it stays in that terminal state.
\* ------------------------------------------------------------------------
C11_EmptyShortCircuit ==
    [][ /\ (mpc = "handoff" /\ DOMAIN doc_nodes = {})
            => (mpc' = "nothing" /\ run_exc' = "")
        /\ (mpc = "nothing")
            => (mpc' = "nothing" /\ run_exc' = "" /\ DOMAIN doc_nodes' = {})
      ]_vars

\* The reduction pruned every changed file, and the run ended normally
C11_Witness ==
    /\ mpc = "nothing"
    /\ run_exc = ""
    /\ config.run_on_diff
    /\ DOMAIN lines_for_evaluation # {}
    /\ DOMAIN doc_nodes = {}

\* ------------------------------------------------------------------------
\* C12: the run exits early only when no changed file has a record left
\* after change mapping and reduction: if GitRetriever.__init__ stops the
\* program, then for every changed file and every scoped diff the
\* repository could answer, the reduced record set of the file is empty.
\* ------------------------------------------------------------------------
\* What _extract_lines stores for k when the repository answers `diff`
WouldMap(k, diff) ==
    IF diff.entries > 1 THEN {}
    ELSE IF is_fast_path(diffed_map, nodes, k) THEN Range(nodes[k])
    ELSE IF diff.entries = 0 \/ process_git_diff(diff.patch).exc # "" THEN {}
    ELSE match_lines_to_ast(nodes, k, process_git_diff(diff.patch).lines)

C12_OnlyEmptyExit ==
    mpc = "exited" =>
        \A k \in DOMAIN diffed_map : \A diff \in DiffAnswers :
            covered_only(config, WouldMap(k, diff)) = {}

\* ------------------------------------------------------------------------
\* C13: with ignore_nested_classes on, the nested-class rule leaves no
\* nested-class record and no record with a nested class on its parent
\* chain, and keeps every other record of its input.
\* ------------------------------------------------------------------------
\* TRUE iff record `id` of the file, or a record on its parent chain, is a
\* nested class
RECURSIVE UnderNestedClass(_, _)
UnderNestedClass(all, id) ==
    /\ id # 0
    /\ (all[id].is_nested_cls \/ UnderNestedClass(all, all[id].parent))

C13_NestedClassSubtree ==
    [][ (fpc = "nested_classes" /\ fconfig.ignore_nested_classes) =>
          /\ \A n \in Range(flist') : ~UnderNestedClass(fall, n.id)
          /\ \A n \in Range(flist) :
                ~UnderNestedClass(fall, n.id) => n \in Range(flist')
      ]_vars

Constructors ==
    { n \in Range(flist) :
        /\ n.node_type = "FunctionDef" /\ n.name = "__init__"
        /\ n.parent # 0 /\ fall[n.parent].node_type = "ClassDef" }

C16_StylePropagation ==
    [][ fpc = "style" =>
          IF fconfig.docstring_style = "google"
          THEN /\ \A n \in Constructors :
                     IF fcovered[n.id] # fcovered[n.parent]
                     THEN fcovered'[n.id] /\ fcovered'[n.parent]
                     ELSE /\ fcovered'[n.id] = fcovered[n.id]
                          /\ fcovered'[n.parent] = fcovered[n.parent]
               /\ \A i \in DOMAIN fcovered :
                     (\A n \in Constructors : i # n.id /\ i # n.parent)
                        => fcovered'[i] = fcovered[i]
          ELSE fcovered' = fcovered
      ]_vars

\* ------------------------------------------------------------------------
\* C17: applying the Scope Filter, with the same configuration, to the list
\* it returned gives the same records with the same covered attributes.
\* ------------------------------------------------------------------------
C17_FilterIdempotent ==
    fpc = "refiltered" =>
        /\ Range(flist) = Range(ffirst.nodes)
        /\ fcovered = ffirst.covered

\* ------------------------------------------------------------------------
\* C15: visibility classification.  A name that starts and ends with a
\* double underscore is neither private nor semiprivate; a name is private
\* iff it starts with two underscores and does not end with two; a name is
\* semiprivate iff it starts with exactly one underscore and does not end
\* in an underscore; no name is both; a class or function is dropped for
\* visibility iff it is private with ignore_private on or semiprivate with
\* ignore_semiprivate on.
\* ------------------------------------------------------------------------
IsDunder(nm) == StartsWith(nm, <<"_", "_">>) /\ EndsWith(nm, <<"_", "_">>)

PrivateName(nm) == StartsWith(nm, <<"_", "_">>) /\ ~EndsWith(nm, <<"_", "_">>)

OneLeadingUnderscore(nm) ==
    StartsWith(nm, <<"_">>) /\ ~StartsWith(nm, <<"_", "_">>)

\* No function-specific rule drops the node
VisibilityDecides ==
    \/ snode.type = "ClassDef"
    \/ /\ ~(sconfig.ignore_init_method /\ snode.name = InitName)
       /\ ~(sconfig.ignore_magic /\ IsDunder(snode.name))
       /\ ~(sconfig.ignore_property_decorators
             /\ has_property_decorators(snode))
       /\ ~(sconfig.ignore_property_setters /\ has_setters(snode))
       /\ ~(sconfig.ignore_overloaded_functions /\ has_overload(snode))

\* The classification with `semi` as the semiprivate names
VisibilityLaw(semi(_)) ==
    spc = "done" =>
        LET nm == snode.name
        IN  /\ IsDunder(nm) => ~is_private(nm) /\ ~is_semiprivate(nm)
            /\ is_private(nm) <=> PrivateName(nm)
            /\ is_semiprivate(nm) <=> semi(nm)
            /\ ~(is_private(nm) /\ is_semiprivate(nm))
            /\ VisibilityDecides =>
                  (~svisited <=>
                     \/ sconfig.ignore_private /\ PrivateName(nm)
                     \/ sconfig.ignore_semiprivate /\ semi(nm))

SemiNoTrailingUnderscore(nm) ==
    OneLeadingUnderscore(nm) /\ ~EndsWith(nm, <<"_">>)

SemiNoTrailingDunder(nm) ==
    OneLeadingUnderscore(nm) /\ ~EndsWith(nm, <<"_", "_">>)

\* C15 as stated
C15_Visibility == VisibilityLaw(SemiNoTrailingUnderscore)

\* C15 amended: a name is semiprivate iff it starts with exactly one
\* underscore and does not end with a double underscore
C15_VisibilityAmended == VisibilityLaw(SemiNoTrailingDunder)

\* A name with one leading and one trailing underscore was dropped as
\* semiprivate
C15_Witness ==
    /\ spc = "done"
    /\ OneLeadingUnderscore(snode.name)
    /\ EndsWith(snode.name, <<"_">>)
    /\ ~EndsWith(snode.name, <<"_", "_">>)
    /\ Len(snode.name) > 1
    /\ sconfig.ignore_semiprivate /\ ~sconfig.ignore_private
    /\ VisibilityDecides
    /\ ~svisited

\* ------------------------------------------------------------------------
\* C18: the mapping passed to Parser.process has no entry whose text is
\* the sentinel "-1" and has every other returned entry unchanged.
\* ------------------------------------------------------------------------
C18_SentinelExcluded ==
    /\ \A i \in 1..Len(processed) :
          \A k \in DOMAIN processed[i].docs :
              processed[i].docs[k] # NO_CHANGE
    /\ (cpc \in {"document", "done"} /\ Len(processed) > 0) =>
          LET docs == processed[Len(processed)].docs
          IN  /\ processed[Len(processed)].file = cfile
              /\ DOMAIN docs \subseteq DOMAIN responses
              /\ \A k \in DOMAIN responses :
                    IF responses[k] = NO_CHANGE
                    THEN k \notin DOMAIN docs
                    ELSE k \in DOMAIN docs /\ docs[k] = responses[k]

\* The responses of a file held the sentinel and another text, and
\* Parser.process was called
C18_Witness ==
    /\ cpc = "document"
    /\ Len(processed) > 0
    /\ \E k \in DOMAIN responses : responses[k] = NO_CHANGE
    /\ \E k \in DOMAIN responses : responses[k] = "-1\n"
    /\ DOMAIN processed[Len(processed)].docs # {}

\* ------------------------------------------------------------------------
\* C19: process_prompts creates one task per prompt before it awaits any;
\* a failed request is caught and written out, never raised; when
\* process_prompts returns every task has finished and was awaited, and
\* the mapping holds exactly the names whose request succeeded.
\* ------------------------------------------------------------------------
C19_BestEffortFanOut ==
    /\ cpc # "raised"
    /\ (cpc = "await" \/ awaited > 0) => DOMAIN tasks = DOMAIN prompts
    /\ awaited <= Len(finished)
    /\ cpc = "returned" =>
          /\ \A n \in DOMAIN prompts : tasks[n] \in {"ok", "failed"}
          /\ awaited = Cardinality(DOMAIN prompts)
          /\ DOMAIN responses = { n \in DOMAIN tasks : tasks[n] = "ok" }
          /\ Range(logged) = { n \in DOMAIN tasks : tasks[n] = "failed" }

\* The first task to finish failed, a later one succeeded, and
\* process_prompts returned
C19_Witness ==
    /\ cpc = "returned"
    /\ Len(finished) >= 2
    /\ tasks[finished[1]] = "failed"
    /\ tasks[finished[Len(finished)]] = "ok"

\* ------------------------------------------------------------------------
\* C20: for every file, the number of requests issued equals the number
\* of class, function and async-function records handed to comment().
\* ------------------------------------------------------------------------
C20_OneRequestPerRecord ==
    cpc = "returned" => Len(requests) = Len(not_ignored(cnodes[cfile]))

\* ------------------------------------------------------------------------
\* C21: _extract_lines raises ValueError exactly when the repository
\* answers more than one diff entry for a scoped path; the run then ends
\* there: no mapping is returned and the Commenter is not called.
\* ------------------------------------------------------------------------
C21_TooManyEntriesFatal ==
    [][ /\ (run_exc' = "ValueError") <=>
              (\E k \in DOMAIN seen' : seen'[k].diff.entries > 1)
        /\ (run_exc' = "ValueError") => mpc' = "raised"
        /\ (mpc = "raised") =>
              (mpc' = "raised" /\ run_exc' = run_exc
               /\ doc_nodes' = doc_nodes)
      ]_vars

\* A second path answered two entries after a first path was mapped
C21_Witness ==
    /\ mpc = "raised"
    /\ run_exc = "ValueError"
    /\ DOMAIN lines_for_evaluation # {}
    /\ \E k \in DOMAIN seen : seen[k].diff.entries = 2

\* ------------------------------------------------------------------------
\* C24: with include_only_covered every record handed to the generation
\* step has its docstring flag set, with and without diff scoping (the
\* Added fast path included); without the switch the sets handed over are
\* the mapped sets (or, without diff scoping, the full per-file lists),
\* whatever the records' docstring flags.
\* ------------------------------------------------------------------------
HandedOver == mpc \in {"handoff", "commenting", "nothing"}

C24_CoverageSwitch ==
    HandedOver =>
      /\ config.include_only_covered =>
            \A k \in DOMAIN doc_nodes : \A n \in doc_nodes[k] : n.covered
      /\ (~config.include_only_covered /\ ~config.run_on_diff) =>
            doc_nodes = AsSets(results_of(config, shapes))
      /\ (~config.include_only_covered /\ config.run_on_diff) =>
            /\ DOMAIN doc_nodes =
                 { k \in DOMAIN lines_for_evaluation :
                     lines_for_evaluation[k] # {} }
            /\ \A k \in DOMAIN doc_nodes :
                 doc_nodes[k] = lines_for_evaluation[k]

\* A file with an undocumented record reaches the Commenter through the
\* Added fast path, under the switch, without that record
C24_Witness ==
    /\ mpc = "commenting"
    /\ config.include_only_covered
    /\ \E k \in DOMAIN doc_nodes :
         /\ k \in DOMAIN seen /\ seen[k].via = "fast"
         /\ \E i \in 1..Len(results_of(config, shapes)[k]) :
              ~results_of(config, shapes)[k][i].covered

\* ------------------------------------------------------------------------
\* C28: a line that starts with '---' or '+++' emits no record and advances
\* no counter, inside a hunk as well: a record's number is its line's
\* position in the hunk less the number of such lines before it on its side.
\* ------------------------------------------------------------------------
DroppedRemoved(l) == IsRemovedLine(l) /\ StartsWith(l.s, <<"-", "-", "-">>)

DroppedAdded(l) == IsAddedLine(l) /\ StartsWith(l.s, <<"+", "+", "+">>)

C28_HeaderLikeLinesDropped ==
    \A i \in 1..Len(changes) :
        LET j == origin[i]
            h == HeaderOf(j)
            rec == changes[i]
        IN  /\ h > 0
            /\ ~DroppedRemoved(consumed[j])
            /\ ~DroppedAdded(consumed[j])
            /\ rec.kind \in {BLANK, REMOVE} =>
                 rec.old_lineno =
                   Some(consumed[h].old + CountBefore(j, OldSide)
                          - CountBefore(j, DroppedRemoved))
            /\ rec.kind \in {BLANK, ADD} =>
                 rec.new_lineno =
                   Some(consumed[h].new + CountBefore(j, NewSide)
                          - CountBefore(j, DroppedAdded))

\* A Removed record after one '---' line of its hunk: its number is one
\* lower than its position
C28_Witness ==
    \E i \in 1..Len(changes) :
        LET j == origin[i]
            h == HeaderOf(j)
        IN  /\ dpc = "parsed"
            /\ changes[i].kind = REMOVE
            /\ CountBefore(j, DroppedRemoved) = 1
            /\ changes[i].old_lineno =
                 Some(consumed[h].old + CountBefore(j, OldSide) - 1)

\* ------------------------------------------------------------------------
\* C22: a directory scan returns exactly the files below it that have a
\* supported extension (.py, .pyi), are not a package initializer
\* (__init__.py) and do not lie in a common excluded directory.
\* ------------------------------------------------------------------------
IsPackageInitializer(f) ==
    basename(f) = InitName \o <<".", "p", "y">>

\* A directory on the way to f bears a name of COMMON_EXCLUDE
InExcludedDirectory(f) ==
    \E i \in 1..Len(f), e \in COMMON_EXCLUDE :
        /\ i = 1 \/ f[i - 1] = "/"
        /\ i + Len(e) <= Len(f)
        /\ SubSeq(f, i, i + Len(e) - 1) = e
        /\ f[i + Len(e)] = "/"

Selectable(f) ==
    /\ has_valid_extension(f)
    /\ ~IsPackageInitializer(f)
    /\ ~InExcludedDirectory(f)

C22_FileSelection ==
    (wpc \in {"end", "returned", "exited"} /\ paths = <<Root>>) =>
        Range(filenames) = { f \in tree_files : Selectable(f) }

\* ------------------------------------------------------------------------
\* C30: the Transformer leaves a definition whose name is not a key as it
\* is; a definition whose name is a key ends with one documentation
\* statement, first in its body, that replaces the one it had or is
\* inserted before its statements; a second application changes nothing.
\* ------------------------------------------------------------------------
\* The statements of a body other than its documentation string
HasDocumentation(body) ==
    Len(body) > 0 /\ body[1] = DocStmt(body[1].value)

NonDocStatements(body) == IF HasDocumentation(body) THEN Tail(body) ELSE body

\* The text without one leading and one trailing triple quote
Unquoted(text) ==
    LET a == IF Len(text) >= 3 /\ SubSeq(text, 1, 3) = TripleQuote
             THEN 3 ELSE 0
        rest == SubSeq(text, a + 1, Len(text))
        b == IF Len(rest) >= 3
                  /\ SubSeq(rest, Len(rest) - 2, Len(rest)) = TripleQuote
             THEN 3 ELSE 0
    IN  SubSeq(rest, 1, Len(rest) - b)

RewriteLaw(Doc(_)) ==
    /\ rpass = 2 =>
          /\ Len(rtree1) = Len(rtree0)
          /\ \A i \in 1..Len(rtree0) :
                LET n0 == rtree0[i]
                    n1 == rtree1[i]
                IN  IF n0.name \notin DOMAIN comments
                    THEN n1 = n0
                    ELSE /\ n1.node_type = n0.node_type
                         /\ n1.name = n0.name
                         /\ n1.depth = n0.depth
                         /\ n1.body = <<DocStmt(Doc(comments[n0.name]))>>
                                        \o NonDocStatements(n0.body)
    /\ rpc = "done" => rtree = rtree1

\* The claim as stated: the documentation statement is the mapped text
MappedText(text) == text

C30_Rewrite == RewriteLaw(MappedText)

\* As the code has it: the mapped text less its surrounding triple quotes
C30_RewriteAmended == RewriteLaw(Unquoted)

\* Both Transformers have run on a tree where a text in triple quotes
\* replaced a documentation string and another was inserted
C30_Witness ==
    /\ rpc = "done"
    /\ \E i, j \in 1..Len(rtree0) :
          /\ rtree0[i].name \in DOMAIN comments
          /\ rtree0[j].name \in DOMAIN comments
          /\ comments[rtree0[i].name] # Unquoted(comments[rtree0[i].name])
          /\ HasDocumentation(rtree0[i].body)
          /\ ~HasDocumentation(rtree0[j].body)
          /\ Len(rtree[i].body) = Len(rtree0[i].body)
          /\ Len(rtree[j].body) = Len(rtree0[j].body) + 1

\* ------------------------------------------------------------------------
\* Definition Tree Builder: the tree of records
\* ------------------------------------------------------------------------
\* The node of the parsed tree a record was built for
TreeIndexOf(rec) ==
    IF rec.lineno = None THEN 1
    ELSE CHOOSE i \in 2..Len(tree) : tree[i].lineno = rec.lineno

\* The nodes of the parsed tree that enclose node i, the module included
Enclosing(i) == { a \in 1..(i - 1) : subtree_end(tree, a) >= i }

\* The nodes a record exists for
Visited == { TreeIndexOf(visitor_nodes[k]) : k \in 1..Len(visitor_nodes) }

RecordOf(i) ==
    CHOOSE k \in 1..Len(visitor_nodes) : TreeIndexOf(visitor_nodes[k]) = i

\* C25: the records are in pre-order; the first is the module's, at level 0
\* without parent; every other record's parent is the record of the nearest
\* enclosing visited definition, which precedes it, one level up; the
\* open-scope stack is empty when the traversal has ended.
C25_TreeShape ==
    /\ \A k \in 1..Len(visitor_nodes) :
          LET r == visitor_nodes[k]
              i == TreeIndexOf(r)
              up == Enclosing(i) \cap Visited
          IN  /\ r.id = k
              /\ \A j \in 1..(k - 1) : TreeIndexOf(visitor_nodes[j]) < i
              /\ IF k = 1
                 THEN r.node_type = "Module" /\ r.level = 0 /\ r.parent = 0
                 ELSE /\ up # {}
                      /\ LET a == CHOOSE x \in up : \A y \in up : y <= x
                         IN  /\ r.parent = RecordOf(a)
                             /\ r.parent < k
                             /\ r.level = visitor_nodes[r.parent].level + 1
    /\ vpc = "done" => stack = << >>

\* The traversal has ended on a file where a definition two levels deep is
\* followed by a definition at the top level
C25_Witness ==
    /\ vpc = "done"
    /\ \E j, k \in 1..Len(visitor_nodes) :
          /\ j < k
          /\ visitor_nodes[j].level = 2
          /\ visitor_nodes[k].level = 1
          /\ visitor_nodes[k].parent = 1

\* ------------------------------------------------------------------------
\* C29: a definition a skip rule ignores takes its whole subtree with it:
\* the records are those of the documentable nodes less the ignored ones and
\* all the definitions nested in them.
\* ------------------------------------------------------------------------
\* A skip rule of the configuration applies to definition i by itself
SkipRuleApplies(i) ==
    LET named == [name |-> NameChars(tree[i].name),
                  decorator_list |-> tree[i].decorator_list]
    IN  /\ tree[i].type # "Module"
        /\ IF tree[i].type = "ClassDef"
           THEN is_class_ignored(vconfig, named)
           ELSE is_func_ignored(vconfig, named)

Skipped == { i \in 1..Len(tree) : SkipRuleApplies(i) }

\* The skipped definitions and the definitions nested in them
Pruned ==
    { i \in 1..Len(tree) :
        \E a \in Skipped : a <= i /\ i <= subtree_end(tree, a) }

C29_SkipPrunesSubtree ==
    /\ Visited \cap Pruned = {}
    /\ \A k \in 1..Len(visitor_nodes) :
          Enclosing(TreeIndexOf(visitor_nodes[k])) \cap Skipped = {}
    /\ vpc = "done" =>
          /\ Visited = (1..Len(tree)) \ Pruned
          /\ Len(visitor_nodes) = Len(tree) - Cardinality(Pruned)

\* The traversal has ended on a file where a definition no rule applies to
\* has no record, being nested in a skipped one, and a definition after the
\* skipped one has a record
C29_Witness ==
    /\ vpc = "done"
    /\ \E a \in Skipped :
          /\ \E i \in Pruned \ Skipped : a < i /\ i <= subtree_end(tree, a)
          /\ \E j \in Visited : j > subtree_end(tree, a)

\* ------------------------------------------------------------------------
\* C26: is_nested_func holds iff the record is a function, async or not,
\* whose enclosing record is a function, async or not; is_nested_cls holds
\* iff the record is a class whose enclosing record is a function or a
\* class; both are false directly under the module.
\* ------------------------------------------------------------------------
IsFunctionType(t) == t \in {"FunctionDef", "AsyncFunctionDef"}

C26_NestingFlags ==
    \A k \in 1..Len(visitor_nodes) :
        LET r == visitor_nodes[k]
            ptype == IF r.parent = 0 THEN "none"
                     ELSE visitor_nodes[r.parent].node_type
        IN  /\ r.is_nested_func <=>
                 (IsFunctionType(r.node_type) /\ IsFunctionType(ptype))
            /\ r.is_nested_cls <=>
                 (r.node_type = "ClassDef"
                    /\ (IsFunctionType(ptype) \/ ptype = "ClassDef"))

\* ------------------------------------------------------------------------
\* C27: the module record's path is the file's base name; every other
\* record's path is its parent's path, a separator and its name, the
\* separator being ":" exactly when the parent is the module record.
\* ------------------------------------------------------------------------
C27_PathConstruction ==
    \A k \in 1..Len(visitor_nodes) :
        LET r == visitor_nodes[k]
        IN  IF r.parent = 0
            THEN r.path = FileTokens(filename)
            ELSE r.path = visitor_nodes[r.parent].path
                            \o <<IF r.parent = 1 THEN ":" ELSE ".">>
                            \o <<r.name>>

\* ------------------------------------------------------------------------
\* C23: the stored code of a documented record is its source segment less
\* the lines of its documentation statement, every other line kept in
\* order; the stored code of an undocumented record is its segment.
\* ------------------------------------------------------------------------
\* The source segment of the node a record was built for
SegmentOf(rec) ==
    LET node == tree[TreeIndexOf(rec)]
    IN  IF node.lineno = None THEN << >>
        ELSE SubSeq(source, node.lineno[1], node.end_lineno[1])

\* The documentation statement of a documented definition: the three lines
\* after its header
C23_BodyTextStripping ==
    \A k \in 1..Len(visitor_nodes) :
        LET r == visitor_nodes[k]
            seg == SegmentOf(r)
        IN  IF r.covered
            THEN r.code = <<seg[1]>> \o SubSeq(seg, 5, Len(seg))
            ELSE r.code = seg

====
